---------------------------- MODULE Spec2Model ----------------------------
(***************************************************************************)
(* A model of the MPU9250 driver libraries/mpu9250/mpu9250.c: the DMP      *)
(* initialisation paths, the interrupt-driven sampler thread               *)
(* (imu_interrupt_handler), the FIFO parser (read_dmp_fifo) and the user   *)
(* calls that share state with them.                                       *)
(*                                                                         *)
(* Floating point sample values are abstracted to tokens: every FIFO       *)
(* packet carries a token, and a record field decoded from a packet holds  *)
(* the token of that packet.  The bytes of the FIFO buffer are abstracted  *)
(* to what the parser asks of them: the result of the quaternion validity  *)
(* check at each candidate offset and whether the magnetometer sample is   *)
(* all zero.  Every bus transfer may fail; the number of failures in one   *)
(* behaviour is capped by MaxBusFail.                                      *)
(***************************************************************************)
EXTENDS Integers, Sequences, FiniteSets, TLC

\* ---------------------------------------------------------------- bounds
MaxWorkers == 2   \* sampler threads that may exist at the same time
MaxBusFail == 1   \* bus operations that may fail in one behaviour
MaxTok     == 1   \* distinct sample values a packet may carry

\* ------------------------------------------------------ program constants
FIFO_LEN_NO_MAG == 28
FIFO_LEN_MAG    == 35
FIFO_SIZE       == 1024

Workers == 1..MaxWorkers
Tok     == 1..MaxTok

VARIABLES
    drv,     \* the driver's globals (mpu9250.c lines 32-45)
    dev,     \* device registers the model follows (INT_ENABLE)
    i2c,     \* the bus: its advisory claim flag, the failures still to come
    pstate,  \* get_state(): "RUNNING" or "EXITING"
    data,    \* the caller's imu_data_t the driver writes through data_ptr
    wk,      \* the sampler threads, one record per thread
    u,       \* the calling thread: the API call it is in, if any
    disk     \* the calibration files of CONFIG_DIRECTORY

vars == <<drv, dev, i2c, pstate, data, wk, u, disk>>

Min(a, b) == IF a < b THEN a ELSE b

\* ------------------------------------------------------------ FIFO parser

\* A parser that takes every multiple of 7 bytes up to 77 for one packet at
\* offset 0.
ClassifyAtZero(fifo_count) ==
    IF fifo_count = 0
    THEN [kind |-> "empty", i |-> 0, mag |-> 0, dmp |-> 0]
    ELSE IF fifo_count % 7 = 0 /\ fifo_count <= 77
    THEN [kind |-> "one", i |-> 0, mag |-> 0, dmp |-> 1]
    ELSE [kind |-> "weird", i |-> 0, mag |-> 0, dmp |-> 0]

\* The byte-count checks at the head of read_dmp_fifo: what is in the FIFO
\* and where the (older) data to skip ends.
Classify(fifo_count) ==
    CASE fifo_count = 0 ->
           [kind |-> "empty", i |-> 0, mag |-> 0, dmp |-> 0]
      [] fifo_count = FIFO_LEN_NO_MAG ->
           [kind |-> "one", i |-> 0, mag |-> 0, dmp |-> 1]
      [] fifo_count = FIFO_LEN_MAG ->
           [kind |-> "one", i |-> 0, mag |-> 1, dmp |-> 1]
      [] fifo_count = 42 ->
           [kind |-> "uneven", i |-> 7, mag |-> 0, dmp |-> 1]
      [] fifo_count = 63 ->
           [kind |-> "uneven", i |-> 28, mag |-> 0, dmp |-> 1]
      [] fifo_count = 77 ->
           [kind |-> "uneven", i |-> 42, mag |-> 0, dmp |-> 1]
      [] fifo_count = 2 * FIFO_LEN_NO_MAG ->
           [kind |-> "two", i |-> FIFO_LEN_NO_MAG, mag |-> 0, dmp |-> 1]
      [] fifo_count = 2 * FIFO_LEN_MAG ->
           [kind |-> "two", i |-> FIFO_LEN_MAG, mag |-> 1, dmp |-> 1]
      [] fifo_count \in {7, 14, 21} ->
           [kind |-> "magonly", i |-> fifo_count - 7, mag |-> 1, dmp |-> 0]
      [] OTHER ->
           [kind |-> "weird", i |-> 0, mag |-> 0, dmp |-> 0]

\* mpu_reset_fifo with its k-th register write failing (k = 0: none fails).
\* Writes 1..4 are checked and end the routine; writes 5 and 6 are not.
\* Of the registers only INT_ENABLE is followed: write 1 clears it, write 6
\* sets it again when the driver is in DMP mode.
mpu_reset_fifo(dv, dmp_en, k) ==
    IF k = 1 THEN dv
    ELSE IF k \in 2..4 THEN [dv EXCEPT !.int_enable = 0]
    ELSE IF k = 6 THEN [dv EXCEPT !.int_enable = 0]
    ELSE [dv EXCEPT !.int_enable = dmp_en]

\* The block read of READ_FIFO: the first transfer, and the second one that
\* is made only when the first returned an error.  TRUE when the transfer
\* whose result is kept delivered exactly fifo_count bytes.
BlockReads == {<<"ok">>, <<"short">>, <<"err", "ok">>, <<"err", "short">>,
               <<"err", "err">>}
BlockReadOk(rd) == rd[Len(rd)] = "ok"
BlockReadFails(rd) == Cardinality({n \in 1..Len(rd) : rd[n] = "err"})

\* A parser that takes the quaternion at offset i without the validity check.
LocateQuatUnchecked(c, enable_magnetometer, vq7, vq0) ==
    [ok |-> TRUE, j |-> c.i, i |-> c.i + FIFO_LEN_NO_MAG]

\* A parser that tries offset i before offset i+7.
LocateQuatAfterFirst(c, enable_magnetometer, vq7, vq0) ==
    IF vq0
    THEN [ok |-> TRUE, j |-> c.i, i |-> c.i + FIFO_LEN_NO_MAG]
    ELSE IF enable_magnetometer = 1 /\ vq7
    THEN [ok |-> TRUE, j |-> c.i + 7, i |-> c.i]
    ELSE [ok |-> FALSE, j |-> 0, i |-> c.i]

\* Where the quaternion is: 7 magnetometer bytes may come before it.  vq7
\* and vq0 are the results of check_quaternion_validity at i+7 and at i.
LocateQuat(c, enable_magnetometer, vq7, vq0) ==
    IF enable_magnetometer = 1 /\ vq7
    THEN [ok |-> TRUE, j |-> c.i + 7, i |-> c.i]
    ELSE IF vq0
    THEN [ok |-> TRUE, j |-> c.i, i |-> c.i + FIFO_LEN_NO_MAG]
    ELSE [ok |-> FALSE, j |-> 0, i |-> c.i]

\* The quaternion, accelerometer and gyro fields decoded from packet t.
DecodeDmp(d, t) ==
    [d EXCEPT !.dmp_quat = t, !.dmp_TaitBryan = t,
              !.raw_accel = t, !.accel = t,
              !.raw_gyro = t, !.gyro = t]

\* The magnetometer sample of packet t; an all-zero sample is not stored.
DecodeMag(d, t, nonzero) ==
    IF nonzero THEN [d EXCEPT !.mag = t] ELSE d

\* data_fusion: a NaN heading returns before any field is written.
data_fusion(d, t, nan) ==
    IF nan THEN d
    ELSE [d EXCEPT !.compass_heading_raw = t, !.compass_heading = t,
                   !.fused_TaitBryan = t, !.fused_quat = t]

\* What a drain did, kept in the record of a thread that is observed
\* (kind "idle" before its drain) until the end of the iteration; the drains
\* of the other threads (kind "none") are not recorded.  cnt is the byte
\* count read, i the offset the count stands for, rd the block transfers,
\* vq the results of the validity check at i+7 and at i, j and mi the offsets
\* the quaternion and the magnetometer sample were taken from, changed the
\* fields of the sample record whose value the call changed.
NoDrain ==
    [kind |-> "none", cnt |-> 0, i |-> 0, mag |-> 0, dmp |-> 0, rd |-> <<>>,
     vq |-> <<FALSE, FALSE>>, j |-> 0, mi |-> 0, reset |-> FALSE,
     new_dmp |-> FALSE, new_mag |-> FALSE, fused |-> FALSE, changed |-> {}]

\* One way a read_dmp_fifo call can end: its return value, what it did,
\* the sample record and the device after it, the bus transfers that
\* failed in it.
Outcome(r, g, nd, ndev, nf) ==
    [ret |-> r, g |-> g, data |-> nd, dev |-> ndev, nf |-> nf]

\* "reset the FIFO and return -1": the outcomes, one for each way
\* mpu_reset_fifo can go with the failures that are left.
ResetAndFail(g, d, dv, dmp_en, nf, fails) ==
    {Outcome(-1, [g EXCEPT !.reset = TRUE], d, mpu_reset_fifo(dv, dmp_en, k),
             nf + (IF k = 0 THEN 0 ELSE 1)) :
       k \in {n \in 0..6 : n = 0 \/ fails >= nf + 1}}

\* A return value that counts a magnetometer sample as success.
DrainReturnsZero(is_new_dmp_data) == 0

\* "our return value is based on the presence of DMP data only".
DrainResult(is_new_dmp_data) == IF is_new_dmp_data THEN 0 ELSE -1

\* The end of read_dmp_fifo, from "if there was magnetometer data try to read
\* it": the magnetometer sample at offset mi, the fusion, the return value.
DrainTail(g, d, dv, enable_magnetometer, is_new_dmp_data, mi, nf) ==
    {LET d2 == IF g.mag = 1 THEN DecodeMag(d, t, nz) ELSE d
         fu == is_new_dmp_data /\ enable_magnetometer = 1
         d3 == IF fu THEN data_fusion(d2, t, nan) ELSE d2
     IN Outcome(DrainResult(is_new_dmp_data),
                [g EXCEPT !.mi = mi, !.new_dmp = is_new_dmp_data,
                          !.new_mag = (g.mag = 1 /\ nz), !.fused = fu],
                d3, dv, nf)
     : t \in Tok, nz \in BOOLEAN, nan \in BOOLEAN}

\* read_dmp_fifo on the sample record d, the device dv and the globals dr,
\* when the FIFO count register may return any value of Counts and at most
\* fails bus transfers fail: the set of ways it can end.
read_dmp_fifo(d, dv, dr, fails, Counts) ==
    IF dr.dmp_en = 0 \/ dr.packet_len \notin {FIFO_LEN_NO_MAG, FIFO_LEN_MAG}
    THEN {Outcome(-1, [NoDrain EXCEPT !.kind = "refused"], d, dv, 0)}
    ELSE
      \* the read of FIFO_COUNTH fails
      {Outcome(-1, [NoDrain EXCEPT !.kind = "count_error"], d, dv, 1) :
         n \in 1..Min(1, fails)}
      \cup UNION {
        LET c == Classify(cnt)
            g0 == [NoDrain EXCEPT !.kind = c.kind, !.cnt = cnt, !.i = c.i,
                                  !.mag = c.mag, !.dmp = c.dmp]
        IN
        IF c.kind = "empty" THEN {Outcome(-1, g0, d, dv, 0)}
        ELSE IF c.kind = "weird"
        THEN ResetAndFail(g0, d, dv, dr.dmp_en, 0, fails)
        ELSE UNION {
          LET g1 == [g0 EXCEPT !.rd = rd]
              nf == BlockReadFails(rd)
          IN
          IF ~BlockReadOk(rd) THEN {Outcome(-1, g1, d, dv, nf)}
          ELSE IF c.dmp = 1
          THEN UNION {
            LET q == LocateQuat(c, dr.config.enable_magnetometer,
                                vq[1], vq[2])
                g2 == [g1 EXCEPT !.vq = vq, !.j = q.j]
            IN
            IF ~q.ok THEN ResetAndFail(g2, d, dv, dr.dmp_en, nf, fails)
            ELSE UNION {DrainTail(g2, DecodeDmp(d, t), dv,
                                  dr.config.enable_magnetometer, TRUE, q.i,
                                  nf) : t \in Tok}
            : vq \in BOOLEAN \X BOOLEAN }
          ELSE DrainTail(g1, d, dv, dr.config.enable_magnetometer, FALSE,
                         c.i, nf)
          : rd \in {r \in BlockReads : BlockReadFails(r) <= fails} }
        : cnt \in Counts }

\* ---------------------------------------------------------- sampler thread

\* The byte counts the device reports while the whole driver runs: nothing,
\* one packet without and with magnetometer data, and a count the parser
\* does not know.
FifoCounts == {0, 28, 31, 35}

NoWorker ==
    [pc |-> "none", first_run |-> 0, ret |-> 0, fd |-> FALSE,
     had_ok |-> FALSE, g |-> NoDrain]

\* imu_interrupt_handler up to the loop: open the GPIO value file, reset the
\* FIFO (its result is ignored).
WorkerStart(w) ==
    /\ wk[w].pc = "start"
    /\ \E opened \in BOOLEAN :
         IF ~opened
         THEN /\ wk' = [wk EXCEPT ![w] = [@ EXCEPT !.pc = "done"]]
              /\ UNCHANGED <<dev, i2c>>
         ELSE \E k \in 0..6 :
              /\ (k # 0) => i2c.fails >= 1
              /\ wk' = [wk EXCEPT ![w] = [@ EXCEPT !.pc = "loop", !.fd = TRUE,
                                                     !.first_run = 1]]
              /\ dev' = mpu_reset_fifo(dev, drv.dmp_en, k)
              /\ i2c' = [i2c EXCEPT !.fails = @ - (IF k = 0 THEN 0 ELSE 1)]
    /\ UNCHANGED <<drv, pstate, data, u, disk>>

\* What both tests of the loop read.
StopRequested == pstate = "EXITING" \/ drv.shutdown_interrupt_thread = 1

\* Leaving the loop: gpio_fd_close and return.
Closed(w) == [NoWorker EXCEPT !.pc = "done", !.g = wk[w].g]

\* The while condition.
WorkerLoop(w) ==
    /\ wk[w].pc = "loop"
    /\ wk' = [wk EXCEPT ![w] = IF StopRequested THEN Closed(w)
                               ELSE [@ EXCEPT !.pc = "poll"]]
    /\ UNCHANGED <<drv, dev, i2c, pstate, data, u, disk>>

\* poll() without a timeout: it returns on an edge only.
PollBlocks(dv) == {TRUE : n \in 1..dv.int_enable}

\* What poll() may return with: POLLPRI (TRUE) when the device, its
\* interrupt enabled, has pulled the line, and nothing (FALSE) when the
\* timeout IMU_POLL_TIMEOUT has passed.
PollReturns(dv) == {FALSE} \cup {TRUE : n \in 1..dv.int_enable}

\* poll and the test after it; on an edge lseek/read, the timestamp and
\* i2c_claim_bus, whatever the claim state was.
WorkerPoll(w) ==
    /\ wk[w].pc = "poll"
    /\ \E edge \in PollReturns(dev) :
         IF StopRequested
         THEN wk' = [wk EXCEPT ![w] = Closed(w)] /\ i2c' = i2c
         ELSE IF edge
         THEN /\ wk' = [wk EXCEPT ![w] = [@ EXCEPT !.pc = "drain"]]
              /\ i2c' = [i2c EXCEPT !.in_use = 1]
         ELSE wk' = [wk EXCEPT ![w] = [@ EXCEPT !.pc = "loop"]] /\ i2c' = i2c
    /\ UNCHANGED <<drv, dev, pstate, data, u, disk>>

\* ret = read_dmp_fifo(): the call of thread w with the byte counts Counts.
\* What the call did is put on record for the observed thread, and until
\* the release that follows for any thread when the call was refused.
Drain(w, Counts) ==
    /\ wk[w].pc = "drain"
    /\ \E o \in read_dmp_fifo(data, dev, drv, i2c.fails, Counts) :
         /\ wk' = [wk EXCEPT ![w] =
                     [@ EXCEPT !.pc = "release", !.ret = o.ret,
                               !.g = IF @.kind \in {"none", "refused"}
                                        /\ o.g.kind # "refused"
                                     THEN NoDrain
                                     ELSE [o.g EXCEPT !.changed =
                                             {f \in DOMAIN data :
                                                o.data[f] # data[f]}]]]
         /\ data' = o.data
         /\ dev' = o.dev
         /\ i2c' = [i2c EXCEPT !.fails = @ - o.nf]
    /\ UNCHANGED <<drv, pstate, u, disk>>

WorkerDrain(w) == Drain(w, FifoCounts)

\* i2c_release_bus, and "record if it was successful or not".
WorkerRelease(w) ==
    /\ wk[w].pc = "release"
    /\ wk' = [wk EXCEPT ![w] =
                [@ EXCEPT !.pc = "cbtest",
                          !.g = IF @.kind = "refused" THEN NoDrain ELSE @]]
    /\ i2c' = [i2c EXCEPT !.in_use = 0]
    /\ drv' = [drv EXCEPT !.last_read_successful =
                              IF wk[w].ret = 0 THEN 1 ELSE 0]
    /\ UNCHANGED <<dev, pstate, data, u, disk>>

\* The test without the first_run flag.
CallsUserFromStart(first_run, func_set, last_ok) ==
    func_set = 1 /\ last_ok = 1

\* Whether the user function is to be called in this iteration.
CallsUser(first_run, func_set, last_ok) ==
    first_run # 1 /\ func_set = 1 /\ last_ok = 1

\* The end of an iteration in the thread's record: ret is dead, had_ok
\* remembers whether a drain of this thread has returned 0, the drain of an
\* observed thread is forgotten.
Iterated(r) ==
    [r EXCEPT !.pc = "loop", !.ret = 0, !.had_ok = @ \/ r.ret = 0,
              !.g = IF @.kind = "none" THEN @
                    ELSE [NoDrain EXCEPT !.kind = "idle"]]

\* "call the user function if not the first run".
WorkerCbTest(w) ==
    /\ wk[w].pc = "cbtest"
    /\ wk' = [wk EXCEPT ![w] =
                IF CallsUser(wk[w].first_run, drv.interrupt_func_set,
                             drv.last_read_successful)
                THEN [@ EXCEPT !.pc = "call"]
                ELSE Iterated([@ EXCEPT !.first_run = 0])]
    /\ UNCHANGED <<drv, dev, i2c, pstate, data, u, disk>>

\* imu_interrupt_func() runs and returns.
WorkerCall(w) ==
    /\ wk[w].pc = "call"
    /\ wk' = [wk EXCEPT ![w] = Iterated(@)]
    /\ UNCHANGED <<drv, dev, i2c, pstate, data, u, disk>>

\* ------------------------------------------------------------- user calls

UserFuncs == {"user_func"}

set_imu_interrupt_func(f) ==
    /\ u.ph = "idle"
    /\ drv' = [drv EXCEPT !.imu_interrupt_func = f, !.interrupt_func_set = 1]
    /\ UNCHANGED <<dev, i2c, pstate, data, wk, u, disk>>

stop_imu_interrupt_func ==
    /\ u.ph = "idle"
    /\ drv' = [drv EXCEPT !.interrupt_func_set = 0]
    /\ UNCHANGED <<dev, i2c, pstate, data, wk, u, disk>>

\* The program state turns EXITING (set_state, called by the application
\* or its signal handler).
SetStateExiting ==
    /\ pstate = "RUNNING"
    /\ pstate' = "EXITING"
    /\ UNCHANGED <<drv, dev, i2c, data, wk, u, disk>>


\* ------------------------------------------- configurations a caller passes

DMP_MAX_RATE == 200
DMP_MIN_RATE == 4

\* get_default_imu_config, with the magnetometer off or on.  A selector of
\* -1 stands for a value outside its enum; compass_tc_ok for
\* compass_time_constant > 0.1.
DefaultConf(mag) ==
    [enable_magnetometer |-> mag, dmp_sample_rate |-> 100,
     compass_tc_ok |-> TRUE, gyro_fsr |-> 1000, accel_fsr |-> 4,
     gyro_dlpf |-> 92, accel_dlpf |-> 92]

\* The zero-initialised global before any initialisation.
ZeroConf ==
    [enable_magnetometer |-> 0, dmp_sample_rate |-> 0,
     compass_tc_ok |-> FALSE, gyro_fsr |-> 0, accel_fsr |-> 0,
     gyro_dlpf |-> 0, accel_dlpf |-> 0]

DmpConfigs ==
    {DefaultConf(0), DefaultConf(1),
     [DefaultConf(0) EXCEPT !.dmp_sample_rate = 3],
     [DefaultConf(0) EXCEPT !.dmp_sample_rate = 30],
     [DefaultConf(0) EXCEPT !.dmp_sample_rate = 250],
     [DefaultConf(1) EXCEPT !.compass_tc_ok = FALSE]}

ImuConfigs ==
    {DefaultConf(0), DefaultConf(1), [DefaultConf(1) EXCEPT !.accel_dlpf = -1]}

\* ------------------------------------------------ the API calls, as programs

\* One statement (or callee) of an API routine: the line it is on, what can
\* make it fail ("set": nothing; "check": the configuration; "bus": a bus
\* transfer; "env": another collaborator; "join": the thread it waits for
\* has not returned; "inuse": the bus is claimed; "loop": the sample loop
\* was left early; "short": too few samples), what the routine does when it
\* fails ("ignore": goes on; "ret": return -1; "rel_ret": i2c_release_bus
\* and return -1; else the statement it goes to), for which configurations
\* it is executed, and whether
\* the routine sleeps or blocks in it (usleep in reset_mpu9250, the join),
\* which is where the model lets the other threads run.
St(op, line, kind, fail, when, yield) ==
    [op |-> op, line |-> line, kind |-> kind, fail |-> fail, when |-> when,
     yield |-> yield]

initialize_imu_dmp_prog ==
    << St("range_check",            705, "check", "ret",     "always", FALSE),
       St("divisor_check",          712, "check", "ret",     "always", FALSE),
       St("time_constant_check",    719, "check", "ret",     "always", FALSE),
       St("i2c_get_in_use_state",   726, "set",   "ignore",  "always", FALSE),
       St("i2c_init",               732, "bus",   "ret",     "always", FALSE),
       St("gpio_export",            738, "env",   "ret",     "always", FALSE),
       St("gpio_set_dir",           742, "env",   "ret",     "always", FALSE),
       St("gpio_set_edge",          746, "env",   "ret",     "always", FALSE),
       St("i2c_claim_bus",          754, "set",   "ignore",  "always", FALSE),
       St("reset_mpu9250",          757, "bus",   "rel_ret", "always", TRUE),
       St("read_who_am_i",          764, "bus",   "rel_ret", "always", FALSE),
       St("check_who_am_i",         768, "env",   "rel_ret", "always", FALSE),
       St("load_gyro_offets",       776, "bus",   "rel_ret", "always", FALSE),
       St("store_dmp_config",       783, "set",   "ignore",  "always", FALSE),
       St("mpu_set_sample_rate",    790, "bus",   "rel_ret", "always", FALSE),
       St("initialize_magnetometer",798, "bus",   "rel_ret", "mag",    FALSE),
       St("power_down_magnetometer",804, "bus",   "ignore",  "nomag",  FALSE),
       St("set_dmp_fsr",            809, "bus",   "ignore",  "always", FALSE),
       St("gyro_dlpf_check",        813, "check", "accel_dlpf_check",
                                                             "always", FALSE),
       St("gyro_dlpf_write",        813, "bus",   "ignore",  "always", FALSE),
       St("accel_dlpf_check",       814, "check", "dmp_load_motion_driver_firmware",
                                                             "always", FALSE),
       St("accel_dlpf_write",       814, "bus",   "ignore",  "always", FALSE),
       St("dmp_load_motion_driver_firmware",
                                    818, "bus",   "rel_ret", "always", FALSE),
       St("dmp_set_fifo_rate",      823, "bus",   "rel_ret", "always", FALSE),
       St("dmp_set_orientation",    830, "bus",   "rel_ret", "always", FALSE),
       St("dmp_enable_feature",     835, "bus",   "ignore",  "always", FALSE),
       St("clear_packet_len",       1209, "set",  "ignore",  "always", TRUE),
       St("add_packet_len",         1210, "set",  "ignore",  "always", FALSE),
       St("dmp_set_interrupt_mode", 841, "bus",   "rel_ret", "always", FALSE),
       St("mpu_set_dmp_state",      846, "bus",   "ignore",  "always", FALSE),
       St("fifo_slave_magnetometer",853, "bus",   "ignore",  "mag",    FALSE),
       St("i2c_release_bus",        868, "set",   "ignore",  "always", FALSE),
       St("start_thread_flags",     875, "set",   "ignore",  "always", FALSE),
       St("pthread_create",         881, "set",   "ignore",  "always", FALSE) >>

initialize_imu_prog ==
    << St("i2c_get_in_use_state",   128, "set",   "ignore",  "always", FALSE),
       St("i2c_init",               134, "bus",   "ret",     "always", FALSE),
       St("i2c_claim_bus",          141, "set",   "ignore",  "always", FALSE),
       St("store_config",           144, "set",   "ignore",  "always", FALSE),
       St("reset_mpu9250",          147, "bus",   "rel_ret", "always", TRUE),
       St("read_who_am_i",          154, "bus",   "rel_ret", "always", FALSE),
       St("check_who_am_i",         159, "env",   "rel_ret", "always", FALSE),
       St("load_gyro_offets",       167, "bus",   "rel_ret", "always", FALSE),
       St("write_smplrt_div",       175, "bus",   "rel_ret", "always", FALSE),
       St("gyro_fsr_check",         182, "check", "rel_ret", "always", FALSE),
       St("gyro_fsr_write",         182, "bus",   "rel_ret", "always", FALSE),
       St("accel_fsr_check",        187, "check", "rel_ret", "always", FALSE),
       St("accel_fsr_write",        187, "bus",   "rel_ret", "always", FALSE),
       St("gyro_dlpf_check",        192, "check", "rel_ret", "always", FALSE),
       St("gyro_dlpf_write",        192, "bus",   "rel_ret", "always", FALSE),
       St("accel_dlpf_check",       197, "check", "rel_ret", "always", FALSE),
       St("accel_dlpf_write",       197, "bus",   "rel_ret", "always", FALSE),
       St("initialize_magnetometer",205, "bus",   "rel_ret", "mag",    FALSE),
       St("power_down_magnetometer",211, "bus",   "ignore",  "nomag",  FALSE),
       St("i2c_release_bus",        214, "set",   "ignore",  "always", FALSE) >>

\* power_off_imu with the flag raised after the writes instead of before.
power_off_imu_flag_last ==
    << St("write_h_reset",          665, "bus",   "ret",     "always", FALSE),
       St("write_sleep",            675, "bus",   "ret",     "always", TRUE),
       St("set_shutdown",           660, "set",   "ignore",  "always", FALSE),
       St("pthread_timedjoin_np",   690, "join",  "ignore",  "always", FALSE) >>

power_off_imu_prog ==
    << St("set_shutdown",           660, "set",   "ignore",  "always", FALSE),
       St("write_h_reset",          665, "bus",   "ret",     "always", FALSE),
       St("write_sleep",            675, "bus",   "ret",     "always", TRUE),
       St("pthread_timedjoin_np",   690, "join",  "ignore",  "always", FALSE) >>

calibrate_gyro_routine_prog ==
    << St("in_use_check",           2091, "inuse", "ret",    "always", FALSE),
       St("i2c_init",               2098, "bus",   "ret",    "always", FALSE),
       St("i2c_claim_bus",          2106, "set",   "ignore", "always", FALSE),
       St("reset_mpu9250",          2109, "bus",   "ret",    "always", TRUE),
       St("calibration_setup",      2115, "bus",   "ignore", "always", TRUE),
       St("collect_data",           2146, "bus",   "ignore", "always", TRUE),
       St("fifo_sample_count",      2158, "pick",  "ignore", "always", FALSE),
       St("read_fifo_samples",      2176, "bus",   "ret",    "always", FALSE),
       St("standard_deviation",     2189, "pick",  "ignore", "always", FALSE),
       St("noise_check",            2203, "judge", "collect_data",
                                                             "always", FALSE),
       St("divide_by_samples",      2210, "div",   "trap",   "always", FALSE),
       St("average_offsets",        2210, "pick",  "ignore", "always", FALSE),
       St("offset_check",           2215, "judge", "collect_data",
                                                             "always", FALSE),
       St("i2c_release_bus",        2223, "set",   "ignore", "always", FALSE),
       St("write_gyro_offets_to_disk",
                                    2230, "env",   "ret",    "always", FALSE) >>

\* calibrate_mag_routine, with its call of power_off_imu (line 2549, result
\* unused) written out.
calibrate_mag_routine_prog ==
    << St("store_default_config",   2465, "set",   "ignore", "always", FALSE),
       St("in_use_check",           2470, "inuse", "ret",    "always", FALSE),
       St("i2c_init",               2477, "bus",   "ret",    "always", FALSE),
       St("i2c_claim_bus",          2485, "set",   "ignore", "always", FALSE),
       St("reset_mpu9250",          2488, "bus",   "ret",    "always", TRUE),
       St("read_who_am_i",          2493, "bus",   "rel_ret","always", FALSE),
       St("check_who_am_i",         2498, "env",   "rel_ret","always", FALSE),
       St("initialize_magnetometer",2504, "bus",   "rel_ret","always", FALSE),
       St("clear_mag_calibration",  2512, "set",   "ignore", "always", FALSE),
       St("read_mag_data",          2521, "bus",   "ignore", "always", TRUE),
       St("sample_loop_exit",       2520, "loop",  "ignore", "always", FALSE),
       St("set_shutdown",           660,  "set",   "ignore", "always", FALSE),
       St("write_h_reset",          665,  "bus",   "i2c_release_bus",
                                                             "always", FALSE),
       St("write_sleep",            675,  "bus",   "i2c_release_bus",
                                                             "always", TRUE),
       St("pthread_timedjoin_np",   690,  "join",  "ignore", "always", FALSE),
       St("i2c_release_bus",        2550, "set",   "ignore", "always", FALSE),
       St("enough_samples",         2558, "short", "ret",    "always", FALSE),
       St("fit_ellipsoid",          2565, "env",   "ret",    "always", FALSE),
       St("fitted_center",          2565, "pick",  "ignore", "always", FALSE),
       St("center_bounds",          2573, "judge", "ret",    "always", FALSE),
       St("fitted_length",          2565, "pick",  "ignore", "always", FALSE),
       St("length_bounds",          2579, "judge", "ret",    "always", FALSE),
       St("write_mag_cal_to_disk",  2606, "env",   "ret",    "always", FALSE) >>

Prog(op) ==
    CASE op = "initialize_imu_dmp" -> initialize_imu_dmp_prog
      [] op = "initialize_imu"     -> initialize_imu_prog
      [] op = "power_off_imu"      -> power_off_imu_prog
      [] op = "calibrate_gyro_routine" -> calibrate_gyro_routine_prog
      [] op = "calibrate_mag_routine"  -> calibrate_mag_routine_prog

\* The statement of prog named op.
Index(prog, op) == CHOOSE i \in 1..Len(prog) : prog[i].op = op

Applies(s, conf) ==
    CASE s.when = "mag"   -> conf.enable_magnetometer = 1
      [] s.when = "nomag" -> conf.enable_magnetometer = 0
      [] OTHER            -> TRUE

\* The checks of the configuration: TRUE when the check rejects it.
CheckFails(op, conf) ==
    CASE op = "range_check" ->
           conf.dmp_sample_rate > DMP_MAX_RATE
           \/ conf.dmp_sample_rate < DMP_MIN_RATE
      [] op = "divisor_check" -> DMP_MAX_RATE % conf.dmp_sample_rate # 0
      [] op = "time_constant_check" ->
           conf.enable_magnetometer = 1 /\ ~conf.compass_tc_ok
      [] op = "gyro_fsr_check"   -> conf.gyro_fsr = -1
      [] op = "accel_fsr_check"  -> conf.accel_fsr = -1
      [] op = "gyro_dlpf_check"  -> conf.gyro_dlpf = -1
      [] op = "accel_dlpf_check" -> conf.accel_dlpf = -1

\* The chunks the firmware is loaded in (DMP_CODE_SIZE / DMP_LOAD_CHUNK in
\* the code).
FirmwareChunks == 2

\* The ways the firmware load can fail: in chunk (k-1) \div 3 + 1 the write
\* (0), the read back (1) or the comparison (2); after the last chunk the
\* write of the start address.
FirmwareWays == 1..(3 * FirmwareChunks + 1)

\* Every failure of the load reported as -1.
FirmwareResultSame(k) == IF k = 0 THEN 0 ELSE -1

\* What dmp_load_motion_driver_firmware returns when it fails in way k (0:
\* in no way).
FirmwareResult(k) ==
    IF k = 0 THEN 0
    ELSE IF k <= 3 * FirmwareChunks /\ (k - 1) % 3 = 2 THEN -2
    ELSE -1

\* One transfer or comparison of the firmware load.
LoadStep(op, chunk, ok) == [op |-> op, chunk |-> chunk, ok |-> ok]

\* A load that writes the start address after its first chunk.
RECURSIVE LoadChunksEntryEarly(_, _)
LoadChunksEntryEarly(c, k) ==
    IF c > FirmwareChunks THEN <<>>
    ELSE LET w == 3 * (c - 1) + 1
             e == IF c = 1 THEN <<LoadStep("entry", 0, TRUE)>> ELSE <<>>
         IN
         IF k = w THEN <<LoadStep("write", c, FALSE)>>
         ELSE IF k = w + 1
         THEN <<LoadStep("write", c, TRUE), LoadStep("read", c, FALSE)>>
         ELSE IF k = w + 2
         THEN <<LoadStep("write", c, TRUE), LoadStep("read", c, TRUE),
                LoadStep("compare", c, FALSE)>>
         ELSE <<LoadStep("write", c, TRUE), LoadStep("read", c, TRUE),
                LoadStep("compare", c, TRUE)>> \o e
              \o LoadChunksEntryEarly(c + 1, k)

\* What dmp_load_motion_driver_firmware does from chunk c on when it fails
\* in way k: the loop over the chunks (mpu_write_mem, mpu_read_mem, memcmp,
\* a return at the first that fails), then the write of the start address.
RECURSIVE LoadChunks(_, _)
LoadChunks(c, k) ==
    IF c > FirmwareChunks
    THEN <<LoadStep("entry", 0, k # 3 * FirmwareChunks + 1)>>
    ELSE LET w == 3 * (c - 1) + 1 IN
         IF k = w THEN <<LoadStep("write", c, FALSE)>>
         ELSE IF k = w + 1
         THEN <<LoadStep("write", c, TRUE), LoadStep("read", c, FALSE)>>
         ELSE IF k = w + 2
         THEN <<LoadStep("write", c, TRUE), LoadStep("read", c, TRUE),
                LoadStep("compare", c, FALSE)>>
         ELSE <<LoadStep("write", c, TRUE), LoadStep("read", c, TRUE),
                LoadStep("compare", c, TRUE)>> \o LoadChunks(c + 1, k)

\* The statements of initialize_imu_dmp that program the DMP's features.
FeatureOps ==
    {"dmp_set_fifo_rate", "dmp_set_orientation", "dmp_enable_feature",
     "dmp_set_interrupt_mode", "mpu_set_dmp_state"}

\* The ways a statement can fail, numbered from 1.  The callees that reset
\* the FIFO fail at one of its six writes; reset_mpu9250 at one of its two
\* writes; initialize_magnetometer in mpu_set_bypass (1), in the read of
\* the sensitivity values (2) or in a write of AK8963_CNTL (3).
Variants(op) ==
    CASE op \in {"dmp_enable_feature", "mpu_set_dmp_state"} -> 1..6
      [] op = "reset_mpu9250" -> 1..2
      [] op = "dmp_load_motion_driver_firmware" -> FirmwareWays
      [] op = "initialize_magnetometer" -> 1..3
      [] OTHER -> 1..1

\* Whether the callee returns the failure k to the routine: the writes of
\* AK8963_CNTL in initialize_magnetometer are not tested.
Reports(op, k) == ~(op = "initialize_magnetometer" /\ k = 3)

\* The statements that write registers or memory of the device.
RegisterWrites ==
    {"reset_mpu9250", "load_gyro_offets", "mpu_set_sample_rate",
     "write_smplrt_div", "gyro_fsr_write", "accel_fsr_write",
     "gyro_dlpf_write", "accel_dlpf_write", "set_dmp_fsr",
     "initialize_magnetometer", "power_down_magnetometer",
     "dmp_load_motion_driver_firmware", "dmp_set_fifo_rate",
     "dmp_set_orientation", "dmp_enable_feature", "dmp_set_interrupt_mode",
     "mpu_set_dmp_state", "fifo_slave_magnetometer", "write_h_reset",
     "write_sleep", "calibration_setup", "collect_data"}

\* The other statements that use the bus, the claim flag or the GPIO pin.
HardwareOps ==
    {"i2c_init", "gpio_export", "gpio_set_dir", "gpio_set_edge",
     "i2c_claim_bus", "i2c_release_bus", "read_who_am_i",
     "read_fifo_samples", "read_mag_data"}

\* The thresholds of a collection round of calibrate_gyro_routine.
GYRO_CAL_THRESH == 50
GYRO_OFFSET_THRESH == 500

Abs(x) == IF x < 0 THEN -x ELSE x

\* A collection round of calibrate_gyro_routine: how far it is ("none",
\* "counted", "rejected", "accepted"), whether the FIFO held a sample
\* (n = 1) or none (n = 0), the largest of the three standard deviations
\* and the mean offset that is largest in magnitude.  A rejected round's
\* numbers are discarded with it.
NoRound == [st |-> "none", n |-> 0, dev |-> 0, off |-> 0]

\* The values a statement of the round can compute: the count read at
\* line 2157 is not tested and the FIFO may hold less than one sample; the
\* deviations and means are those at and next to the thresholds.  With no
\* sample the quotient of line 2210 is whatever the division by zero
\* leaves.
Picks(op) ==
    CASE op = "fifo_sample_count"  -> {0, 1}
      [] op = "standard_deviation" -> {GYRO_CAL_THRESH, GYRO_CAL_THRESH + 1}
      [] op = "average_offsets"    ->
           {-GYRO_OFFSET_THRESH - 1, -GYRO_OFFSET_THRESH,
            GYRO_OFFSET_THRESH, GYRO_OFFSET_THRESH + 1}
      [] op = "fitted_center"      -> {-201, 200}
      [] op = "fitted_length"      -> {4, 5, 200, 201}

\* A routine that tests the noise and lets every mean offset pass.
RejectsNoiseOnly(op, o) == op = "noise_check" /\ o.round.dev > 50

\* The tests of lines 2203 and 2215 that send calibrate_gyro_routine back
\* to COLLECT_DATA, and those of lines 2573 and 2579 on the component of
\* the fitted center and on the fitted length that are farthest out.
Rejects(op, o) ==
    CASE op = "noise_check"   -> o.round.dev > GYRO_CAL_THRESH
      [] op = "offset_check"  -> Abs(o.round.off) > GYRO_OFFSET_THRESH
      [] op = "center_bounds" -> Abs(o.fit.center) > 200
      [] op = "length_bounds" -> o.fit.length > 200 \/ o.fit.length < 5

\* The loop of line 2174 reads the FIFO only when it holds a sample.
Transfers(op, r) == op = "read_fifo_samples" => r.n > 0

\* The round after statement op ended in way k.
RoundAfter(r, op, k) ==
    CASE op = "fifo_sample_count"  -> [NoRound EXCEPT !.st = "counted", !.n = k]
      [] op = "standard_deviation" -> [r EXCEPT !.dev = k]
      [] op = "average_offsets"    -> [r EXCEPT !.off = k]
      [] op = "noise_check" /\ k # 0 -> [NoRound EXCEPT !.st = "rejected"]
      [] op = "offset_check" ->
           IF k # 0 THEN [NoRound EXCEPT !.st = "rejected"]
           ELSE [r EXCEPT !.st = "accepted"]
      [] OTHER -> r

\* What is on record of a call: the statement it returned at ("end": its
\* last), the way the firmware load ended, how far the call went with the
\* hardware ("none", "hw", "write"), whether a write other than those of the
\* reset failed, how often the identity register was read, what the
\* firmware load returned and did, whether a feature of the DMP was
\* programmed, the collection round of the gyro calibration, how often the
\* gyro calibration file was written, the ellipsoid fitted to the
\* magnetometer samples, the magnetometer calibration in memory and on
\* disk when calibrate_mag_routine was called.
NoObs ==
    [at |-> "none", k |-> 0, touch |-> "none", wfail |-> FALSE, tries |-> 0,
     fw |-> 0, load |-> <<>>, feat |-> FALSE, round |-> NoRound, filed |-> 0,
     fit |-> [center |-> 0, length |-> 0], before |-> [cal |-> 0, mag |-> 0]]

\* The record after statement s ended in way k.
Observe(o, s, k) ==
    [o EXCEPT
       !.touch = IF s.op \in RegisterWrites THEN "write"
                 ELSE IF s.op \in HardwareOps /\ @ = "none" THEN "hw" ELSE @,
       !.wfail = @ \/ (k # 0 /\ s.op \in RegisterWrites
                         /\ s.op # "reset_mpu9250"),
       !.tries = IF s.op = "read_who_am_i" THEN @ + 1 ELSE @,
       !.k = IF s.op = "dmp_load_motion_driver_firmware" THEN k ELSE @,
       !.fw = IF s.op = "dmp_load_motion_driver_firmware"
              THEN FirmwareResult(k) ELSE @,
       !.load = IF s.op = "dmp_load_motion_driver_firmware"
                THEN LoadChunks(1, k) ELSE @,
       !.feat = @ \/ s.op \in FeatureOps,
       !.round = RoundAfter(@, s.op, k),
       !.fit = CASE s.op = "fitted_center" -> [@ EXCEPT !.center = k]
                 [] s.op = "fitted_length" -> [@ EXCEPT !.length = k]
                 [] OTHER -> @,
       !.filed = IF s.op = "write_gyro_offets_to_disk" /\ k = 0
                 THEN @ + 1 ELSE @]

\* The feature bits of dmp_enable_feature's mask that count for the packet
\* length; DMP_FEATURE_SEND_ANY_GYRO is the raw or the calibrated gyro.
Features == {"SEND_RAW_ACCEL", "SEND_RAW_GYRO", "SEND_CAL_GYRO", "LP_QUAT",
             "6X_LP_QUAT"}
SEND_ANY_GYRO == {"SEND_RAW_GYRO", "SEND_CAL_GYRO"}

\* The mask initialize_imu_dmp passes (line 835).
InitFeatures == {"6X_LP_QUAT", "SEND_RAW_ACCEL", "SEND_RAW_GYRO"}

\* A driver that counts the gyro stream for the calibrated gyro only.
PacketLenCalGyro(mask) ==
    (IF "SEND_RAW_ACCEL" \in mask THEN 6 ELSE 0)
      + (IF "SEND_CAL_GYRO" \in mask THEN 6 ELSE 0)
      + (IF mask \cap {"LP_QUAT", "6X_LP_QUAT"} # {} THEN 16 ELSE 0)

\* What lines 1210-1215 add to packet_len.
PacketLen(mask) ==
    (IF "SEND_RAW_ACCEL" \in mask THEN 6 ELSE 0)
      + (IF mask \cap SEND_ANY_GYRO # {} THEN 6 ELSE 0)
      + (IF mask \cap {"LP_QUAT", "6X_LP_QUAT"} # {} THEN 16 ELSE 0)

\* What a statement does to the state; k = 0 when it succeeds, else the way
\* it fails.
Eff(op, S, conf, k) ==
    CASE op = "i2c_claim_bus" ->
           [S EXCEPT !.in_use = 1, !.holds = TRUE, !.claimed = TRUE]
      [] op = "i2c_release_bus" ->
           [S EXCEPT !.in_use = 0, !.holds = FALSE]
      [] op = "reset_mpu9250" ->
           \* the flag is raised first; failure 1 is the H_RESET write, 2 the
           \* write after it
           [S EXCEPT !.drv.shutdown_interrupt_thread = 1,
                     !.dev.int_enable = IF k = 1 THEN @ ELSE 0]
      [] op = "store_config" -> [S EXCEPT !.drv.config = conf]
      [] op = "store_dmp_config" ->
           [S EXCEPT !.drv.dmp_en = 1, !.drv.config = conf]
      [] op = "dmp_enable_feature" ->
           [S EXCEPT !.dev = mpu_reset_fifo(@, S.drv.dmp_en, k)]
      [] op = "clear_packet_len" ->
           \* the sampler of an earlier initialisation may run between
           \* this statement and the next
           [S EXCEPT !.drv.packet_len = 0]
      [] op = "add_packet_len" ->
           [S EXCEPT !.drv.packet_len = @ + PacketLen(InitFeatures)]
      [] op = "mpu_set_dmp_state" ->
           [S EXCEPT !.dev = mpu_reset_fifo([@ EXCEPT !.int_enable = 1],
                                            S.drv.dmp_en, k)]
      [] op = "fifo_slave_magnetometer" ->
           [S EXCEPT !.drv.packet_len = @ + 7]
      [] op = "start_thread_flags" ->
           [S EXCEPT !.drv.interrupt_func_set = 1,
                     !.drv.shutdown_interrupt_thread = 0,
                     !.drv.imu_interrupt_func = "null_func"]
      [] op = "pthread_create" -> [S EXCEPT !.spawn = TRUE]
      [] op = "set_shutdown" ->
           [S EXCEPT !.drv.shutdown_interrupt_thread = 1]
      [] op = "write_h_reset" ->
           IF k = 0 THEN [S EXCEPT !.dev.int_enable = 0] ELSE S
      [] op = "calibration_setup" ->
           \* INT_ENABLE = 0 among the unchecked writes
           IF k = 0 THEN [S EXCEPT !.dev.int_enable = 0] ELSE S
      [] op = "store_default_config" ->
           \* get_default_imu_config() with enable_magnetometer = 1
           [S EXCEPT !.drv.config = DefaultConf(1),
                     !.obs.before = [cal |-> S.drv.mag_cal,
                                     mag |-> S.disk.mag]]
      [] op = "initialize_magnetometer" ->
           \* load_mag_calibration is its last statement
           IF k \in {0, 3} THEN [S EXCEPT !.drv.mag_cal = S.disk.mag] ELSE S
      [] op = "clear_mag_calibration" -> [S EXCEPT !.drv.mag_cal = 0]
      [] op = "write_mag_cal_to_disk" ->
           \* a write that fails is one that could not open the file
           IF k = 0 THEN [S EXCEPT !.disk.mag = 2] ELSE S
      [] op \in {"read_mag_data", "sample_loop_exit"} ->
           \* break with i < samples
           [S EXCEPT !.short = @ \/ k # 0]
      [] op = "pthread_timedjoin_np" ->
           \* ETIMEDOUT after thread_timeout (1 s) when the thread has not
           \* returned; 0 when it has; an error at once for a handle that
           \* never named a thread
           [S EXCEPT !.join = CASE k # 0 -> "timeout"
                                [] S.target = "done" -> "joined"
                                [] OTHER -> "esrch"]
      [] OTHER -> S

\* The ways statement s may end in state S: 0 (it succeeds) or a failure.
Ways(s, S, conf) ==
    CASE s.kind = "set"   -> {0}
      [] s.kind = "check" -> IF CheckFails(s.op, conf) THEN {1} ELSE {0}
      [] s.kind = "env"   -> {0} \cup Variants(s.op)
      [] s.kind = "join"  -> IF S.target = "live" THEN {1} ELSE {0}
      [] s.kind = "inuse" -> IF S.in_use = 1 THEN {1} ELSE {0}
      [] s.kind = "loop"  -> IF S.short \/ S.exiting THEN {1} ELSE {0, 1}
      [] s.kind = "short" -> IF S.short THEN {1} ELSE {0}
      [] s.kind = "pick"  -> Picks(s.op)
      [] s.kind = "judge" -> IF Rejects(s.op, S.obs) THEN {1} ELSE {0}
      [] s.kind = "div"   -> IF S.obs.round.n > 0 THEN {0} ELSE {0, 1}
      [] s.kind = "bus"   ->
           {0} \cup IF S.fails >= 1 /\ Transfers(s.op, S.obs.round)
                    THEN Variants(s.op) ELSE {}

\* A failure return that forgets the bus.
ReturnWithoutRelease(S) == [S EXCEPT !.pc = 0, !.ret = -1]

\* "return -1" and nothing else.
ReturnOnly(S) == [S EXCEPT !.pc = 0, !.ret = -1]

\* The process ends in a division by zero.
Trapped(S) == [S EXCEPT !.pc = -1]

\* "i2c_release_bus(); return -1".
ReleaseAndReturn(S) ==
    [S EXCEPT !.pc = 0, !.ret = -1, !.in_use = 0, !.holds = FALSE]

\* The routine lets the other threads run in statement s: where it sleeps
\* or blocks, and between the two statements that set packet_len when a
\* thread is in the call that reads it (the shutdown flag, raised since
\* reset_mpu9250, keeps every other thread from that call).
Pauses(s, S) == s.yield /\ (s.op = "clear_packet_len" => S.reader)

\* The states a routine can be in when it next lets other threads run
\* (pc > 0) or has returned (pc = 0, ret set), from state S.
RECURSIVE ExecSet(_, _, _)
ExecSet(prog, conf, S) ==
    IF S.pc > Len(prog) THEN {[S EXCEPT !.pc = 0, !.ret = 0, !.obs.at = "end"]}
    ELSE
      LET s == prog[S.pc] IN
      IF ~Applies(s, conf) THEN ExecSet(prog, conf, [S EXCEPT !.pc = @ + 1])
      ELSE UNION {
        LET S1 == [Eff(s.op, S, conf, k) EXCEPT
                     !.fails = IF k # 0 /\ s.kind = "bus"
                               THEN @ - 1 ELSE @,
                     !.obs = Observe(@, s, k)]
            S2 == [S1 EXCEPT !.obs.at = s.op]
        IN
        IF k = 0 \/ s.fail = "ignore" \/ ~Reports(s.op, k)
        THEN IF Pauses(s, S) THEN {[S1 EXCEPT !.pc = @ + 1]}
             ELSE ExecSet(prog, conf, [S1 EXCEPT !.pc = @ + 1])
        ELSE IF s.fail = "ret"
        THEN {ReturnOnly(S2)}
        ELSE IF s.fail = "rel_ret"
        THEN {ReleaseAndReturn(S2)}
        ELSE IF s.fail = "trap"
        THEN {Trapped(S2)}
        ELSE ExecSet(prog, conf, [S1 EXCEPT !.pc = Index(prog, s.fail)])
        : k \in Ways(s, S, conf) }

IdleUser ==
    [ph |-> "idle", op |-> "none", pc |-> 0, conf |-> ZeroConf, ret |-> 0,
     holds |-> FALSE, claimed |-> FALSE, join |-> "none", short |-> FALSE,
     obs |-> NoObs]

\* The thread the handle imu_interrupt_thread names: none before the first
\* pthread_create, else one that runs or one that has returned.
Target ==
    IF drv.imu_interrupt_thread = 0 THEN "none"
    ELSE IF wk[drv.imu_interrupt_thread].pc = "done" THEN "done" ELSE "live"

\* A thread slot initialize_imu_dmp can start its thread in.
FreeSlots == {w \in Workers : wk[w].pc \in {"none", "done"}}

\* The routine op runs from statement pc until it lets other threads run or
\* returns.
Run(op, conf, pc, holds, claimed) ==
    \E S2 \in ExecSet(Prog(op), conf,
                      [drv |-> drv, dev |-> dev, data |-> data,
                       in_use |-> i2c.in_use, fails |-> i2c.fails,
                       holds |-> holds, claimed |-> claimed,
                       spawn |-> FALSE, target |-> Target, join |-> "none",
                       short |-> u.short, exiting |-> pstate = "EXITING",
                       obs |-> u.obs, disk |-> disk,
                       reader |-> \E w \in Workers : wk[w].pc = "drain",
                       pc |-> pc, ret |-> 0]) :
      /\ drv' = IF S2.spawn
                THEN [S2.drv EXCEPT !.imu_interrupt_thread =
                        CHOOSE w \in FreeSlots : \A v \in FreeSlots : w <= v]
                ELSE S2.drv
      /\ dev' = S2.dev
      /\ data' = S2.data
      /\ disk' = S2.disk
      /\ i2c' = [in_use |-> S2.in_use, fails |-> S2.fails]
      /\ wk' = IF S2.spawn
               THEN [wk EXCEPT ![CHOOSE w \in FreeSlots :
                                   \A v \in FreeSlots : w <= v] =
                                 [NoWorker EXCEPT !.pc = "start"]]
               ELSE wk
      /\ u' = [ph |-> IF S2.pc = 0 THEN "returned"
                      ELSE IF S2.pc < 0 THEN "crashed" ELSE "run", op |-> op,
               pc |-> S2.pc,
               conf |-> conf, ret |-> S2.ret,
               holds |-> S2.holds, claimed |-> S2.claimed, join |-> S2.join,
               short |-> S2.pc # 0 /\ S2.short, obs |-> S2.obs]
      /\ UNCHANGED pstate

\* The process has not ended in a trap.
Alive == u.ph # "crashed"

\* No sampler thread exists: none was started, or every one has returned.
NoSampler == \A w \in Workers : wk[w].pc \in {"none", "done"}

initialize_imu_dmp(conf) ==
    /\ u.ph = "idle"
    /\ FreeSlots # {}
    /\ Run("initialize_imu_dmp", conf, 1, FALSE, FALSE)

initialize_imu(conf) ==
    /\ u.ph = "idle"
    /\ Run("initialize_imu", conf, 1, FALSE, FALSE)

power_off_imu ==
    /\ u.ph = "idle"
    /\ Run("power_off_imu", ZeroConf, 1, FALSE, FALSE)

calibrate_gyro_routine ==
    /\ u.ph = "idle"
    /\ Run("calibrate_gyro_routine", ZeroConf, 1, FALSE, FALSE)

calibrate_mag_routine ==
    /\ u.ph = "idle"
    /\ Run("calibrate_mag_routine", ZeroConf, 1, FALSE, FALSE)

\* The calling thread goes on in the routine it is in.
UserContinue ==
    /\ u.ph = "run"
    /\ Run(u.op, u.conf, u.pc, u.holds, u.claimed)

\* The routine has returned to its caller.
UserReturn ==
    /\ u.ph = "returned"
    /\ u' = IdleUser
    /\ UNCHANGED <<drv, dev, i2c, pstate, data, wk, disk>>

\* ------------------------------------------------------- the specification

\* The program before its first call of the driver, when at most fails bus
\* transfers are going to fail.
Start(fails) ==
    /\ drv = [config |-> ZeroConf, dmp_en |-> 0,
              packet_len |-> 0, imu_interrupt_func |-> "NULL",
              interrupt_func_set |-> 0, last_read_successful |-> 0,
              shutdown_interrupt_thread |-> 0, imu_interrupt_thread |-> 0,
              mag_cal |-> 0]
    /\ dev = [int_enable |-> 0]
    /\ i2c = [in_use |-> 0, fails |-> fails]
    /\ pstate = "RUNNING"
    /\ data = [accel |-> 0, gyro |-> 0, mag |-> 0, raw_gyro |-> 0,
               raw_accel |-> 0, dmp_quat |-> 0, dmp_TaitBryan |-> 0, fused_quat |-> 0,
               fused_TaitBryan |-> 0, compass_heading |-> 0,
               compass_heading_raw |-> 0]
    /\ wk = [w \in Workers |-> NoWorker]
    /\ u = IdleUser

\* The magnetometer calibration in a file or in mag_offsets and mag_scales:
\* 0 is no file and, in memory, offsets 0 with scales 1 (or the scales 0 of
\* the zero-initialised arrays, which every use reads as 1); 1 the values a
\* calibration before the behaviour left, 2 those of a calibration of the
\* behaviour.
NoFiles == [mag |-> 0]
CalibratedBefore == [mag |-> 1]

Init == Start(MaxBusFail) /\ disk = NoFiles

\* The steps of sampler thread w.
Sampler(w) ==
    \/ Alive /\ WorkerStart(w)
    \/ Alive /\ WorkerLoop(w)
    \/ Alive /\ WorkerPoll(w)
    \/ Alive /\ WorkerDrain(w)
    \/ Alive /\ WorkerRelease(w)
    \/ Alive /\ WorkerCbTest(w)
    \/ Alive /\ WorkerCall(w)

\* The driver with an application that starts the sampler only when no
\* sampler thread of an earlier initialize_imu_dmp is left.
Next ==
    \/ NoSampler /\ \E conf \in DmpConfigs : initialize_imu_dmp(conf)
    \/ \E conf \in ImuConfigs : initialize_imu(conf)
    \/ power_off_imu
    \/ UserContinue
    \/ UserReturn
    \/ \E f \in UserFuncs : set_imu_interrupt_func(f)
    \/ stop_imu_interrupt_func
    \/ SetStateExiting
    \/ \E w \in Workers : Sampler(w)

Spec == Init /\ [][Next]_vars

\* Starting and stopping the sampler: the application starts it with the
\* default configuration, powers the device off and sets the program state
\* EXITING; the scheduler lets every sampler thread run on.
NextShutdown ==
    \/ NoSampler /\ \E conf \in {DefaultConf(0)} : initialize_imu_dmp(conf)
    \/ power_off_imu
    \/ UserContinue
    \/ UserReturn
    \/ SetStateExiting
    \/ \E w \in Workers : Sampler(w)

SpecShutdown ==
    /\ Init
    /\ [][NextShutdown]_vars
    /\ \A w \in Workers : WF_vars(Sampler(w))

\* The driver with an application that calls initialize_imu_dmp again at any
\* time, also while the thread of an earlier call runs; no bus transfer
\* fails.
InitReinit == Start(0) /\ disk = NoFiles

NextReinit ==
    \/ \E conf \in {DefaultConf(0), DefaultConf(1)} : initialize_imu_dmp(conf)
    \/ UserContinue
    \/ UserReturn
    \/ \E f \in UserFuncs : set_imu_interrupt_func(f)
    \/ stop_imu_interrupt_func
    \/ \E w \in Workers : Sampler(w)

SpecReinit == InitReinit /\ [][NextReinit]_vars

\* The configurations of the setup specification: the defaults, rates out of
\* range or not dividing the maximum, a time constant too small, selectors
\* outside their enums.
SetupConfigs ==
    DmpConfigs \cup ImuConfigs
    \cup {[DefaultConf(0) EXCEPT !.dmp_sample_rate = 0],
          [DefaultConf(0) EXCEPT !.gyro_fsr = -1],
          [DefaultConf(0) EXCEPT !.accel_fsr = -1],
          [DefaultConf(0) EXCEPT !.gyro_dlpf = -1],
          [DefaultConf(1) EXCEPT !.accel_dlpf = -1, !.dmp_sample_rate = 250]}

\* The two setup routines with any of these configurations, and the sampler
\* they start.
NextSetup ==
    \/ NoSampler /\ \E conf \in SetupConfigs : initialize_imu_dmp(conf)
    \/ \E conf \in SetupConfigs : initialize_imu(conf)
    \/ UserContinue
    \/ UserReturn
    \/ \E w \in Workers : Sampler(w)

SpecSetup == Init /\ [][NextSetup]_vars

\* The driver with an application that also calibrates: it starts the
\* sampler when none is left, and calls the setup, the power-off and the
\* two calibration routines in any order.
NextCalib ==
    \/ NoSampler /\ \E conf \in {DefaultConf(0), DefaultConf(1)} :
                      initialize_imu_dmp(conf)
    \/ \E conf \in {DefaultConf(0)} : initialize_imu(conf)
    \/ calibrate_gyro_routine
    \/ calibrate_mag_routine
    \/ power_off_imu
    \/ UserContinue
    \/ UserReturn
    \/ SetStateExiting
    \/ \E w \in Workers : Sampler(w)

SpecCalib == Init /\ [][NextCalib]_vars

\* The magnetometer calibration, its file and its use by the DMP setup.
InitMagCal == Start(MaxBusFail) /\ disk \in {NoFiles, CalibratedBefore}

NextMagCal ==
    \/ NoSampler /\ initialize_imu_dmp(DefaultConf(1))
    \/ calibrate_mag_routine
    \/ UserContinue
    \/ UserReturn
    \/ SetStateExiting
    \/ \E w \in Workers : Sampler(w)

SpecMagCal == InitMagCal /\ [][NextMagCal]_vars

\* One call of read_dmp_fifo by the sampler thread, in any state the driver
\* can be in when the thread makes it, for every value of the FIFO count
\* register.
SampleRecords ==
    LET zero == [accel |-> 0, gyro |-> 0, mag |-> 0, raw_gyro |-> 0,
                 raw_accel |-> 0, dmp_quat |-> 0, dmp_TaitBryan |-> 0,
                 fused_quat |-> 0, fused_TaitBryan |-> 0,
                 compass_heading |-> 0, compass_heading_raw |-> 0]
    IN {zero, DecodeDmp(zero, 1),
        data_fusion(DecodeMag(DecodeDmp(zero, 1), 1, TRUE), 1, FALSE)}

InitParser ==
    /\ \E mag \in {0, 1}, len \in {FIFO_LEN_NO_MAG, FIFO_LEN_MAG} :
         drv = [config |-> DefaultConf(mag), dmp_en |-> 1,
                packet_len |-> len, imu_interrupt_func |-> "null_func",
                interrupt_func_set |-> 1, last_read_successful |-> 1,
                shutdown_interrupt_thread |-> 0, imu_interrupt_thread |-> 1,
                mag_cal |-> 0]
    /\ dev = [int_enable |-> 1]
    /\ disk = NoFiles
    /\ \E fails \in 0..MaxBusFail : i2c = [in_use |-> 1, fails |-> fails]
    /\ pstate = "RUNNING"
    /\ data \in SampleRecords
    /\ wk = [w \in Workers |->
               IF w = 1
               THEN [NoWorker EXCEPT !.pc = "drain", !.fd = TRUE,
                                     !.g = [NoDrain EXCEPT !.kind = "idle"]]
               ELSE NoWorker]
    /\ u = IdleUser

NextParser ==
    \/ \E w \in Workers : Drain(w, 0..FIFO_SIZE)
    \/ \E w \in Workers : WorkerRelease(w)

SpecParser == InitParser /\ [][NextParser]_vars

\* ------------------------------------------------------------------ claims

\* C1: when initialize_imu or initialize_imu_dmp returns, with failure or
\* with success, after it has called i2c_claim_bus, it has released the bus:
\* it does not hold its claim any more, and the claim flag is clear unless a
\* sampler thread holds it for a drain.
SetupLeavesBusReleased ==
    (u.ph = "returned" /\ u.op \in {"initialize_imu", "initialize_imu_dmp"}
       /\ u.claimed)
    => /\ ~u.holds
       /\ (\A w \in Workers : wk[w].pc \notin {"drain", "release"})
            => i2c.in_use = 0

\* A setup routine has returned failure after it claimed the bus.
SetupFailedAfterClaim ==
    /\ u.ph = "returned"
    /\ u.op \in {"initialize_imu", "initialize_imu_dmp"}
    /\ u.claimed
    /\ u.ret = -1

\* The drain of the observed thread w has returned and is still on record.
Drained(w) == wk[w].pc \in {"release", "cbtest"} /\ wk[w].g.kind # "none"

\* The block read of the drain on record delivered the bytes.
ReadIn(g) == g.rd # <<>> /\ BlockReadOk(g.rd)

\* The validity check fails at both offsets the code looks at: i+7 is looked
\* at only when the magnetometer is enabled.
QuatInvalid(g) ==
    ~(drv.config.enable_magnetometer = 1 /\ g.vq[1]) /\ ~g.vq[2]

\* C2: a drain with a packet alignment error - a byte count that is not a
\* recognised one, or coprocessor data read in whose quaternion is invalid at
\* both candidate offsets - resets the FIFO, returns failure and changes no
\* field of the sample record.
AlignmentErrorResetsAndFails ==
    \A w \in Workers :
      LET g == wk[w].g IN
      (Drained(w) /\ (g.kind = "weird"
                      \/ (g.dmp = 1 /\ ReadIn(g) /\ QuatInvalid(g))))
      => (g.reset /\ wk[w].ret = -1 /\ g.changed = {}
          /\ ~g.new_dmp /\ ~g.new_mag /\ ~g.fused)

\* A drain has read a packet in and found its quaternion invalid at both
\* offsets, with a sample record that holds earlier data.
QuatRejected ==
    \E w \in Workers :
      /\ Drained(w) /\ wk[w].g.dmp = 1 /\ ReadIn(wk[w].g)
      /\ QuatInvalid(wk[w].g) /\ wk[w].g.reset
      /\ data.dmp_quat # 0

\* C3: a drain that returns failure changes no field of the sample record,
\* whatever the byte count.
FailedDrainChangesNothing ==
    \A w \in Workers :
      (Drained(w) /\ wk[w].ret = -1) => wk[w].g.changed = {}

\* C5: a drain returns success exactly when it decoded new coprocessor data,
\* which it takes from a packet read in with a valid quaternion; one that
\* finds a magnetometer sample alone (7, 14 or 21 bytes) returns failure, and
\* the thread then records last_read_successful = 0.
SuccessIffNewDmpData ==
    \A w \in Workers :
      LET g == wk[w].g IN
      Drained(w) =>
        /\ (wk[w].ret = 0) <=> g.new_dmp
        /\ g.new_dmp => (g.dmp = 1 /\ ReadIn(g) /\ ~QuatInvalid(g))
        /\ g.cnt \in {7, 14, 21} => wk[w].ret = -1
        /\ wk[w].pc = "cbtest" =>
             drv.last_read_successful = (IF wk[w].ret = 0 THEN 1 ELSE 0)
        /\ (wk[w].pc = "cbtest" /\ g.cnt \in {7, 14, 21})
             => drv.last_read_successful = 0

\* A drain found a magnetometer sample alone and stored it, and the thread
\* has recorded the result.
MagOnlyRecorded ==
    \E w \in Workers :
      /\ Drained(w) /\ wk[w].pc = "cbtest"
      /\ wk[w].g.cnt \in {7, 14, 21} /\ wk[w].g.new_mag

InterruptStaysEnabled ==
    \A w \in Workers :
      (wk[w].pc = "poll" /\ ~StopRequested /\ u.ph = "idle")
      => dev.int_enable = 1

\* C7, as stated: the first drain of a thread that returns success is not
\* followed by a call of the user function, whatever came before it.
FirstSuccessNeverCalls ==
    \A w \in Workers :
      (wk[w].pc = "call" /\ wk[w].ret = 0) => wk[w].had_ok

\* C7, amended: the first interrupt event a thread handles is not followed by
\* a call of the user function, whether its drain succeeded or failed.
FirstEventNeverCalls ==
    \A w \in Workers : wk[w].pc = "call" => wk[w].first_run = 0

\* A thread is at the test of its first event, after a successful drain and
\* with a function registered.
FirstEventSucceeded ==
    \E w \in Workers :
      /\ wk[w].pc = "cbtest" /\ wk[w].first_run = 1 /\ wk[w].ret = 0
      /\ drv.interrupt_func_set = 1 /\ drv.last_read_successful = 1
      /\ drv.imu_interrupt_func = "user_func"

\* C8: the user function is called only directly after a drain of the
\* calling thread that returned success.
CallOnlyAfterSuccess ==
    \A w \in Workers : wk[w].pc = "call" => wk[w].ret = 0

\* C9: the user function is called on every interrupt, whether the read was
\* good or bad: a thread past its first event, with a function registered,
\* goes from its test to the call.
CalledOnEveryInterrupt ==
    [][\A w \in Workers :
         (wk[w].pc = "cbtest" /\ wk'[w] # wk[w] /\ wk[w].first_run = 0
            /\ drv.interrupt_func_set = 1)
         => wk'[w].pc = "call"]_vars

\* C10: once a stop is requested (the shutdown flag or EXITING), a thread
\* that has the GPIO value file open closes it, unless the request is
\* withdrawn - also when no interrupt arrives any more; and a thread whose
\* test after poll sees the request starts no drain.
ShutdownTerminates ==
    /\ \A w \in Workers :
         (wk[w].fd /\ StopRequested) ~> (~wk[w].fd \/ ~StopRequested)
    /\ [][\A w \in Workers :
            (wk[w].pc = "poll" /\ StopRequested) => wk'[w].pc # "drain"]_vars

\* A thread has left its loop on the shutdown flag while the device's
\* interrupt is disabled.
StoppedWithoutInterrupt ==
    \E w \in Workers :
      /\ wk[w].pc = "done" /\ drv.shutdown_interrupt_thread = 1
      /\ dev.int_enable = 0 /\ pstate = "RUNNING"

\* C11: power_off_imu has raised the shutdown flag before its first bus
\* access, so the flag is up in every state of the call, the failure returns
\* included; its wait for the thread ends whether the thread returns or not;
\* and when the wait times out it returns 0 and the thread is as it was,
\* still running.
PowerOffAbandonsWorker ==
    /\ [](u.op = "power_off_imu"
            => /\ drv.shutdown_interrupt_thread = 1
               /\ u.ph = "run" => ENABLED UserContinue)
    /\ [][(u'.op = "power_off_imu" /\ u'.ph = "returned"
             /\ u.ph # "returned" /\ u'.join = "timeout")
          => /\ u'.ret = 0
             /\ wk' = wk
             /\ wk[drv.imu_interrupt_thread].pc \notin {"none", "done"}]_vars

\* power_off_imu has returned after its wait for a running thread timed
\* out.
JoinTimedOut ==
    /\ u.ph = "returned" /\ u.op = "power_off_imu" /\ u.join = "timeout"
    /\ wk[drv.imu_interrupt_thread].pc = "poll"

\* C12: at every moment at most one sampler thread runs (one writer of the
\* sample record), also when initialize_imu_dmp is called again while the
\* thread of an earlier call has not returned.
AtMostOneSampler ==
    \A v, w \in Workers :
      (wk[v].pc \notin {"none", "done"} /\ wk[w].pc \notin {"none", "done"})
      => v = w

\* The routines that calibrate.
Calibrations == {"calibrate_gyro_routine", "calibrate_mag_routine"}

\* C13: while a calibration routine is between its claim of the bus and its
\* return, no sampler thread makes a bus transfer: none returns from a FIFO
\* drain and none runs the FIFO reset of its start.
CalibrationExcludesSampler ==
    [][(u.op \in Calibrations /\ u.ph = "run" /\ u.claimed)
       => \A w \in Workers :
            /\ ~(wk[w].pc = "drain" /\ wk'[w].pc = "release")
            /\ ~(wk[w].pc = "start" /\ wk'[w].pc = "loop")]_vars

\* C14: the stored configuration changes in no step but one of
\* initialize_imu or initialize_imu_dmp.
ConfigOnlySetBySetup ==
    [][drv'.config # drv.config
       => u'.op \in {"initialize_imu", "initialize_imu_dmp"}]_vars

\* The configurations initialize_imu_dmp is to accept: a rate within the
\* limits that divides the maximum, and a time constant above 0.1 when the
\* magnetometer is enabled.
DmpAccepts(conf) ==
    /\ conf.dmp_sample_rate >= DMP_MIN_RATE
    /\ conf.dmp_sample_rate <= DMP_MAX_RATE
    /\ DMP_MAX_RATE % conf.dmp_sample_rate = 0
    /\ ~(conf.enable_magnetometer = 1 /\ ~conf.compass_tc_ok)

\* C15: initialize_imu_dmp with a configuration it is not to accept returns
\* -1 in the step of the call, having touched neither bus nor GPIO and with
\* the globals, the device and the claim flag as they were; and so the rate
\* stored while the DMP is in use is a positive divisor of the maximum rate.
BadRateRejectedUntouched ==
    /\ [][(u.ph = "idle" /\ u'.op = "initialize_imu_dmp"
             /\ ~DmpAccepts(u'.conf))
          => /\ u'.ph = "returned" /\ u'.ret = -1
             /\ u'.obs.touch = "none"
             /\ UNCHANGED <<drv, dev, i2c, data, wk>>]_vars
    /\ [](drv.dmp_en = 1
            => /\ drv.config.dmp_sample_rate > 0
               /\ DMP_MAX_RATE % drv.config.dmp_sample_rate = 0)

\* A selector of the configuration is outside its enum.
BadSelector(conf) ==
    -1 \in {conf.gyro_fsr, conf.accel_fsr, conf.gyro_dlpf, conf.accel_dlpf}

\* C16: a setup routine called with a selector outside its enum returns -1,
\* and no register of the device has been written in that call.
BadSelectorRejectedUnwritten ==
    (u.ph = "returned" /\ u.op \in {"initialize_imu", "initialize_imu_dmp"}
       /\ BadSelector(u.conf))
    => (u.ret = -1 /\ u.obs.touch # "write")

\* C17: a setup routine in which a register or DMP-memory write other than
\* those of the reset failed returns -1: no such failure is passed over.
WriteFailureAborts ==
    (u.ph = "returned" /\ u.op \in {"initialize_imu", "initialize_imu_dmp"}
       /\ u.obs.wfail)
    => u.ret = -1

\* C18: a setup routine returns at the read of the identity register only
\* after it has read it twice, and a wrong identity value makes it return -1.
IdentityReadRetried ==
    (u.ph = "returned" /\ u.op \in {"initialize_imu", "initialize_imu_dmp"})
    => /\ u.obs.at = "read_who_am_i" => u.obs.tries = 2
       /\ u.obs.at = "check_who_am_i" => u.ret = -1

\* The firmware load failed in the comparison of a chunk with what was read
\* back.
ReadBackMismatch(k) == k <= 3 * FirmwareChunks /\ (k - 1) % 3 = 2

\* C19: dmp_load_motion_driver_firmware notices a read-back mismatch in any
\* chunk, and what it returns then (-2) differs from what it returns after
\* a failed write or read (-1); both are failures.
MismatchReportedApart ==
    (u.ph = "returned" /\ u.op = "initialize_imu_dmp"
       /\ u.obs.at = "dmp_load_motion_driver_firmware")
    => /\ u.obs.fw < 0
       /\ ReadBackMismatch(u.obs.k) <=> u.obs.fw = -2
       /\ ~ReadBackMismatch(u.obs.k) <=> u.obs.fw = -1

\* The load has failed in the comparison of the last chunk.
LastChunkMismatch ==
    /\ u.ph = "returned" /\ u.op = "initialize_imu_dmp"
    /\ u.obs.at = "dmp_load_motion_driver_firmware"
    /\ u.obs.k = 3 * FirmwareChunks /\ u.obs.fw = -2

\* C20: initialize_imu_dmp returns something else after a read-back mismatch
\* of the firmware than after a bus failure in the firmware load, for which
\* it returns -1.
CorruptionToldFromTransport ==
    (u.ph = "returned" /\ u.op = "initialize_imu_dmp"
       /\ u.obs.at = "dmp_load_motion_driver_firmware")
    => /\ u.obs.fw = -1 => u.ret = -1
       /\ u.obs.fw = -2 => u.ret # -1

\* C21: the start address is written only after every chunk was written,
\* read back and found identical, in that order and chunk after chunk; a
\* load that fails ends with the transfer or comparison that failed; and
\* initialize_imu_dmp returns from a failed load with no feature of the DMP
\* programmed and, in that step, no thread started.
FailedLoadStopsSetup ==
    /\ [](LET t == u.obs.load IN
          /\ \A n \in 1..Len(t) :
               /\ n < Len(t) => t[n].ok
               /\ t[n].op = "entry"
                    => /\ n = 3 * FirmwareChunks + 1
                       /\ \A c \in 1..FirmwareChunks :
                            /\ t[3 * c - 2] = LoadStep("write", c, TRUE)
                            /\ t[3 * c - 1] = LoadStep("read", c, TRUE)
                            /\ t[3 * c] = LoadStep("compare", c, TRUE)
          /\ (u.ph = "returned"
                /\ u.obs.at = "dmp_load_motion_driver_firmware")
               => /\ ~t[Len(t)].ok
                  /\ ~u.obs.feat
                  /\ u.ret = -1)
    /\ [][(u'.ph = "returned" /\ u.ph # "returned"
             /\ u'.obs.at = "dmp_load_motion_driver_firmware")
          => wk' = wk]_vars

\* The load has failed in the read back of the second chunk, after a first
\* chunk that was found identical.
LoadFailedInSecondChunk ==
    /\ u.ph = "returned" /\ u.op = "initialize_imu_dmp"
    /\ u.obs.at = "dmp_load_motion_driver_firmware"
    /\ Len(u.obs.load) = 5 /\ u.obs.load[5] = LoadStep("read", 2, FALSE)

\* C22: calibrate_gyro_routine writes the gyro calibration file at most once
\* in a call, and only after a collection round whose standard deviations
\* are at most 50 and whose mean offsets are at most 500 in magnitude; a
\* round that is noisy or out of bounds is never the accepted one: after it
\* the routine is back at COLLECT_DATA with nothing written, however many
\* such rounds came before.
QuietRound(r) == r.dev <= 50 /\ -500 <= r.off /\ r.off <= 500

GyroFileOnlyAfterQuietRound ==
    u.op = "calibrate_gyro_routine" =>
      /\ u.obs.filed <= 1
      /\ u.obs.filed = 1 =>
            u.obs.round.st = "accepted" /\ u.ph = "returned" /\ u.ret = 0
      /\ u.obs.round.st = "accepted" => QuietRound(u.obs.round)
      /\ u.obs.round.st = "rejected" =>
            /\ u.ph = "run"
            /\ calibrate_gyro_routine_prog[u.pc - 1].op = "collect_data"
            /\ u.obs.filed = 0

\* The file is written after a round of samples at both thresholds.
GyroFileWrittenAtThresholds ==
    /\ u.op = "calibrate_gyro_routine" /\ u.ph = "returned" /\ u.ret = 0
    /\ u.obs.filed = 1 /\ u.obs.round.n = 1
    /\ u.obs.round.dev = 50 /\ u.obs.round.off = -500

\* C23: when calibrate_mag_routine gives up for want of samples, for a
\* failed fit, for a center component above 200 in magnitude or for a length
\* outside [5, 200], the calibration file is the one from before the call
\* and so are the offsets and scales in mag_offsets and mag_scales.
MagAborts == {"enough_samples", "fit_ellipsoid", "center_bounds",
              "length_bounds"}

AbortedMagCalibrationKeepsOld ==
    (u.op = "calibrate_mag_routine" /\ u.ph = "returned"
       /\ u.obs.at \in MagAborts)
    => /\ u.ret = -1
       /\ disk.mag = u.obs.before.mag
       /\ drv.mag_cal = u.obs.before.cal

\* What of C23 the routine keeps: the file of an aborted calibration is the
\* one from before the call.
AbortedMagCalibrationKeepsFile ==
    (u.op = "calibrate_mag_routine" /\ u.ph = "returned"
       /\ u.obs.at \in MagAborts)
    => u.ret = -1 /\ disk.mag = u.obs.before.mag

\* The fit was rejected for its length while a calibration was in use.
MagAbortedWithCalibrationInUse ==
    /\ u.op = "calibrate_mag_routine" /\ u.ph = "returned"
    /\ u.obs.at = "length_bounds" /\ u.obs.before.cal = 1

\* ------------------------------------------------- the calibration files

\* Text is a sequence of characters.  "%d" and "%f" of fprintf and fscanf
\* over the values the calibration routines can write.
DigitChars == <<"0", "1", "2", "3", "4", "5", "6", "7", "8", "9">>
IsDigit(c) == \E d \in 1..10 : DigitChars[d] = c
DigitOf(c) == (CHOOSE d \in 1..10 : DigitChars[d] = c) - 1
IsSpace(c) == c \in {"\n", " ", "\t"}

RECURSIVE Decimal(_)
Decimal(n) ==
    IF n < 10 THEN <<DigitChars[n + 1]>>
    ELSE Append(Decimal(n \div 10), DigitChars[(n % 10) + 1])

\* A writer that drops the sign.
PrintUnsigned(v) == Decimal(Abs(v))

\* fprintf "%d".
PrintD(v) == IF v < 0 THEN <<"-">> \o Decimal(-v) ELSE Decimal(v)

\* A float is held as the number m of millionths nearest to it and whether
\* anything is left beyond them (fine).  fprintf "%f" prints six decimals.
Million == 1000000
PrintF(x) ==
    LET a == Abs(x.m)
        frac == Decimal(a % Million)
    IN (IF x.m < 0 THEN <<"-">> ELSE <<>>)
       \o Decimal(a \div Million) \o <<".">>
       \o [i \in 1..(6 - Len(frac)) |-> "0"] \o frac

\* fprintf(cal, "%d\n%d\n%d\n", ...) of write_gyro_offets_to_disk.
GyroFileText(offsets) ==
    PrintD(offsets[1]) \o <<"\n">> \o PrintD(offsets[2]) \o <<"\n">>
      \o PrintD(offsets[3]) \o <<"\n">>

\* fprintf(cal, "%f\n%f\n%f\n%f\n%f\n%f\n", ...) of write_mag_cal_to_disk.
MagFileText(offsets, scale) ==
    PrintF(offsets[1]) \o <<"\n">> \o PrintF(offsets[2]) \o <<"\n">>
      \o PrintF(offsets[3]) \o <<"\n">> \o PrintF(scale[1]) \o <<"\n">>
      \o PrintF(scale[2]) \o <<"\n">> \o PrintF(scale[3]) \o <<"\n">>

RECURSIVE SkipSpace(_, _)
SkipSpace(t, p) ==
    IF p <= Len(t) /\ IsSpace(t[p]) THEN SkipSpace(t, p + 1) ELSE p

\* The digits from position p on: their value, how many, where they end.
RECURSIVE ScanDigits(_, _, _, _)
ScanDigits(t, p, val, n) ==
    IF p <= Len(t) /\ IsDigit(t[p])
    THEN ScanDigits(t, p + 1, 10 * val + DigitOf(t[p]), n + 1)
    ELSE [val |-> val, n |-> n, pos |-> p]

Pow10(k) == CASE k = 0 -> 1 [] k = 1 -> 10 [] k = 2 -> 100 [] k = 3 -> 1000
              [] k = 4 -> 10000 [] k = 5 -> 100000 [] OTHER -> Million

\* fscanf "%d" at position p: white space, a sign, digits.
ScanD(t, p) ==
    LET q == SkipSpace(t, p)
        signed == q <= Len(t) /\ t[q] \in {"-", "+"}
        d == ScanDigits(t, IF signed THEN q + 1 ELSE q, 0, 0)
    IN [ok |-> d.n > 0,
        val |-> IF signed /\ t[q] = "-" THEN -d.val ELSE d.val,
        pos |-> d.pos]

\* fscanf "%f" at position p: white space, a sign, digits, a point, digits.
\* What is read is the float nearest to the decimal number of the text.
ScanF(t, p) ==
    LET q == SkipSpace(t, p)
        signed == q <= Len(t) /\ t[q] \in {"-", "+"}
        w == ScanDigits(t, IF signed THEN q + 1 ELSE q, 0, 0)
        point == w.pos <= Len(t) /\ t[w.pos] = "."
        f == IF point THEN ScanDigits(t, w.pos + 1, 0, 0)
             ELSE [val |-> 0, n |-> 0, pos |-> w.pos]
        m == w.val * Million + f.val * Pow10(6 - Min(f.n, 6))
    IN [ok |-> w.n + f.n > 0,
        val |-> [m |-> IF signed /\ t[q] = "-" THEN -m ELSE m,
                 fine |-> FALSE],
        pos |-> f.pos]

\* fscanf with n conversions "%d\n" or "%f\n", from position p: the values
\* read; a conversion that fails ends the call and leaves its variable and
\* the later ones as they were, which is junk for the locals of the loaders.
RECURSIVE ScanAll(_, _, _, _, _)
ScanAll(t, p, n, float, junk) ==
    IF n = 0 THEN <<>>
    ELSE LET r == IF float THEN ScanF(t, p) ELSE ScanD(t, p)
         IN IF r.ok THEN <<r.val>> \o ScanAll(t, r.pos, n - 1, float, junk)
            ELSE [i \in 1..n |-> junk]

\* The bytes load_gyro_offets sends for an offset x: -x/4 as the two bytes
\* of its low 16 bits.
GyroBias(x) ==
    LET q == IF x > 0 THEN -(x \div 4) ELSE (-x) \div 4 IN q % 65536

NoFile == [exists |-> FALSE, text |-> <<>>, arg |-> <<>>]
NoCall == [op |-> "none", ret |-> 0, out |-> <<>>]

\* The values of the files: int16 offsets of every length and sign, fitted
\* centers and scales 70/length inside the bounds of calibrate_mag_routine.
GyroTriples ==
    {<<-32768, 0, 32767>>, <<32767, -32768, 0>>, <<-501, 7, 500>>,
     <<0, 0, 0>>, <<-1, -10, 100>>, <<7, -501, -4>>}
F(m, fine) == [m |-> m, fine |-> fine]
CenterTriples ==
    {<<F(-12345678, TRUE), F(50000, FALSE), F(200000000, FALSE)>>,
     <<F(-500000, FALSE), F(-200000000, FALSE), F(1, TRUE)>>}
ScaleTriples ==
    {<<F(350000, FALSE), F(14000000, FALSE), F(1234567, TRUE)>>,
     <<F(14000000, FALSE), F(1000000, FALSE), F(350000, TRUE)>>}
JunkValues == {-1, 0}

write_gyro_offets_to_disk(offsets) ==
    /\ \E opens \in BOOLEAN :
         IF opens
         THEN /\ disk' = [disk EXCEPT !.gyro =
                            [exists |-> TRUE, text |-> GyroFileText(offsets),
                             arg |-> offsets]]
              /\ u' = [NoCall EXCEPT !.op = "write_gyro_offets_to_disk"]
         ELSE /\ disk' = disk
              /\ u' = [NoCall EXCEPT !.op = "write_gyro_offets_to_disk",
                                     !.ret = -1]
    /\ UNCHANGED <<drv, dev, i2c, pstate, data, wk>>

load_gyro_offets ==
    /\ \E junk \in JunkValues, sent \in BOOLEAN :
         LET xyz == IF disk.gyro.exists
                    THEN ScanAll(disk.gyro.text, 1, 3, FALSE, junk)
                    ELSE <<0, 0, 0>>
         IN /\ u' = [op |-> "load_gyro_offets",
                     ret |-> IF sent THEN 0 ELSE -1, out |-> xyz]
            /\ dev' = IF sent
                      THEN [dev EXCEPT !.gyro_offset =
                              [i \in 1..3 |-> GyroBias(xyz[i])]]
                      ELSE dev
    /\ UNCHANGED <<drv, i2c, pstate, data, wk, disk>>

write_mag_cal_to_disk(offsets, scale) ==
    /\ \E opens \in BOOLEAN :
         IF opens
         THEN /\ disk' = [disk EXCEPT !.mag =
                            [exists |-> TRUE,
                             text |-> MagFileText(offsets, scale),
                             arg |-> offsets \o scale]]
              /\ u' = [NoCall EXCEPT !.op = "write_mag_cal_to_disk"]
         ELSE /\ disk' = disk
              /\ u' = [NoCall EXCEPT !.op = "write_mag_cal_to_disk",
                                     !.ret = -1]
    /\ UNCHANGED <<drv, dev, i2c, pstate, data, wk>>

load_mag_calibration ==
    /\ \E junk \in JunkValues :
         LET six == IF disk.mag.exists
                    THEN ScanAll(disk.mag.text, 1, 6, TRUE,
                                 [m |-> junk, fine |-> FALSE])
                    ELSE [i \in 1..6 |->
                            [m |-> IF i <= 3 THEN 0 ELSE Million,
                             fine |-> FALSE]]
         IN /\ drv' = [drv EXCEPT !.mag_cal = six]
            /\ u' = [op |-> "load_mag_calibration",
                     ret |-> IF disk.mag.exists THEN 0 ELSE -1, out |-> six]
    /\ UNCHANGED <<dev, i2c, pstate, data, wk, disk>>

\* The files written and loaded, one call at a time, by a program that
\* has no sampler: mag_offsets and mag_scales are the zero-initialised
\* arrays, the gyro offset registers are those of a device after its reset.
InitFiles ==
    /\ drv = [mag_cal |-> [i \in 1..6 |-> F(0, FALSE)]]
    /\ dev = [gyro_offset |-> <<0, 0, 0>>]
    /\ i2c = [in_use |-> 0, fails |-> 0]
    /\ pstate = "RUNNING"
    /\ data = [mag |-> 0]
    /\ wk = [w \in Workers |-> NoWorker]
    /\ u = NoCall
    /\ disk = [gyro |-> NoFile, mag |-> NoFile]

NextFiles ==
    \/ \E offsets \in GyroTriples : write_gyro_offets_to_disk(offsets)
    \/ load_gyro_offets
    \/ \E offsets \in CenterTriples, scale \in ScaleTriples :
         write_mag_cal_to_disk(offsets, scale)
    \/ load_mag_calibration

SpecFiles == InitFiles /\ [][NextFiles]_vars

DmpFields == {"dmp_quat", "dmp_TaitBryan", "raw_accel", "accel", "raw_gyro",
              "gyro"}

QuaternionTakenWhereValid ==
    \A w \in Workers :
      LET g == wk[w].g
          mag == drv.config.enable_magnetometer = 1
      IN (g.dmp = 1 /\ g.rd # <<>> /\ BlockReadOk(g.rd)) =>
           IF mag /\ g.vq[1]
           THEN g.new_dmp /\ g.j = g.i + 7 /\ g.mi = g.i
           ELSE IF g.vq[2]
           THEN g.new_dmp /\ g.j = g.i /\ g.mi = g.i + 28
           ELSE /\ ~g.new_dmp /\ g.reset /\ wk[w].ret = -1
                /\ g.changed \cap DmpFields = {}

\* With the magnetometer enabled both offsets passed the check and the
\* data was taken at i+7, after a stale packet.
BothOffsetsValid ==
    \E w \in Workers :
      /\ drv.config.enable_magnetometer = 1
      /\ wk[w].g.vq = <<TRUE, TRUE>> /\ wk[w].g.new_dmp
      /\ wk[w].g.i = 35 /\ wk[w].g.j = 42

\* ------------------------------------------------ check_quaternion_validity

\* "long" of the ARM build the driver is written for has 32 bits.  A long
\* is held as its two halves, x = hi * 2^16 + lo with 0 <= lo < 2^16, and
\* hi is kept in LongBits - 16 bits, two's complement.
LongBits == 32
Half == 2^16
WrapHi(hi) ==
    LET m == hi % (2^(LongBits - 16))
    IN IF m >= 2^(LongBits - 17) THEN m - 2^(LongBits - 16) ELSE m

\* x + y in a type of 30 bits.
AddLongNarrow(x, y) ==
    [hi |-> (x.hi + y.hi + (x.lo + y.lo) \div Half) % 2^14,
     lo |-> (x.lo + y.lo) % Half]

\* x + y of two longs, wrapping.
AddLong(x, y) ==
    [hi |-> WrapHi(x.hi + y.hi + (x.lo + y.lo) \div Half),
     lo |-> (x.lo + y.lo) % Half]

\* The long a * a for a number of 16 bits.
Square(a) == [hi |-> (a * a) \div Half, lo |-> (a * a) % Half]

\* x < y for longs.
LessLong(x, y) == x.hi < y.hi \/ (x.hi = y.hi /\ x.lo < y.lo)

QUAT_ERROR_THRESH == [hi |-> 1, lo |-> 0]
QUAT_MAG_SQ_NORMALIZED == [hi |-> 2^12, lo |-> 0]
QUAT_MAG_SQ_MIN ==
    [hi |-> QUAT_MAG_SQ_NORMALIZED.hi - QUAT_ERROR_THRESH.hi, lo |-> 0]
QUAT_MAG_SQ_MAX ==
    [hi |-> QUAT_MAG_SQ_NORMALIZED.hi + QUAT_ERROR_THRESH.hi, lo |-> 0]

\* A check that rejects the two ends of the band.
OutOfBandOrAtEnd(quat_mag_sq) ==
    ~(LessLong([hi |-> 4095, lo |-> 0], quat_mag_sq)
        /\ LessLong(quat_mag_sq, [hi |-> 4097, lo |-> 0]))

\* The test of lines 1827 and 1830.
OutOfBand(quat_mag_sq) ==
    LessLong(quat_mag_sq, QUAT_MAG_SQ_MIN)
      \/ LessLong(QUAT_MAG_SQ_MAX, quat_mag_sq)

\* The field at offset i of raw (offsets count from 0): four bytes, the
\* first the most significant.
QuatField(raw, i) ==
    [hi |-> WrapHi(raw[i + 1] * 2^8 + raw[i + 2]),
     lo |-> raw[i + 3] * 2^8 + raw[i + 4]]

\* check_quaternion_validity(raw, i): 1 when the record passes.  The shift
\* by 16 leaves the upper half.
QuatValid(raw, i) ==
    LET quat == [n \in 1..4 |-> QuatField(raw, i + 4 * (n - 1))]
        quat_q14 == [n \in 1..4 |-> quat[n].hi]
        quat_mag_sq ==
          AddLong(AddLong(AddLong(Square(quat_q14[1]), Square(quat_q14[2])),
                          Square(quat_q14[3])),
                  Square(quat_q14[4]))
    IN IF OutOfBand(quat_mag_sq) THEN 0 ELSE 1

\* The four bytes the DMP sends for a component whose upper half is the
\* signed 16-bit number hi and whose lower half is lo.
FieldBytes(hi, lo) ==
    LET h == hi % Half
    IN <<h \div 2^8, h % 2^8, lo \div 2^8, lo % 2^8>>

\* The records checked: components at and next to the ends of the band, of
\* both signs, with nothing and with everything in the lower halves, and
\* the largest ones.
QuatUppers ==
    {16381, 16256, -16256, 16384, 16385, -16384, -32768, 32767, 0}
      \X {177, 1920, 256, 128, 0, -32768}
      \X {30, 640, 0, 128, -32768}
      \X {23, 128, 0, -32768}
QuatLowers == {0, Half - 1}

InitQuat ==
    /\ drv = [dmp_en |-> 1]
    /\ \E q \in QuatUppers, lo \in QuatLowers :
         dev = [fifo |-> FieldBytes(q[1], lo) \o FieldBytes(q[2], lo)
                           \o FieldBytes(q[3], lo) \o FieldBytes(q[4], lo),
                sent |-> q]
    /\ i2c = [in_use |-> 0, fails |-> 0]
    /\ pstate = "RUNNING"
    /\ data = [mag |-> 0]
    /\ wk = [w \in Workers |-> NoWorker]
    /\ u = NoCall
    /\ disk = [mag |-> 0]

check_quaternion_validity ==
    /\ u.op = "none"
    /\ u' = [op |-> "check_quaternion_validity",
             ret |-> QuatValid(dev.fifo, 0), out |-> <<>>]
    /\ UNCHANGED <<drv, dev, i2c, pstate, data, wk, disk>>

NextQuat == check_quaternion_validity

SpecQuat == InitQuat /\ [][NextQuat]_vars

\* C26: check_quaternion_validity returns 1 exactly when the squares of the
\* upper halves of the four components, taken as signed numbers, add up to a
\* value from 2^28 - 2^16 to 2^28 + 2^16, both ends included.
\* The sum of the four squares in units of 2^16, and what is left.
SqUpper(a) == (a * a) \div 65536
SqLower(a) == (a * a) % 65536
SquaresUpper(q) ==
    SqUpper(q[1]) + SqUpper(q[2]) + SqUpper(q[3]) + SqUpper(q[4])
      + ((SqLower(q[1]) + SqLower(q[2]) + SqLower(q[3]) + SqLower(q[4]))
           \div 65536)
SquaresLower(q) ==
    (SqLower(q[1]) + SqLower(q[2]) + SqLower(q[3]) + SqLower(q[4])) % 65536

\* 2^28 - 2^16 = 4095 * 2^16 and 2^28 + 2^16 = 4097 * 2^16.
SquaresInBand(q) ==
    /\ SquaresUpper(q) >= 4095
    /\ SquaresUpper(q) < 4097 \/ (SquaresUpper(q) = 4097 /\ SquaresLower(q) = 0)

QuaternionBand ==
    u.op = "check_quaternion_validity" =>
      (u.ret = 1 <=> SquaresInBand(dev.sent))

\* A record at the lower end of the band, with a negative component, passed.
LowerEndPasses ==
    /\ u.op = "check_quaternion_validity" /\ u.ret = 1
    /\ SquaresUpper(dev.sent) = 4095 /\ SquaresLower(dev.sent) = 0
    /\ \E n \in 1..4 : dev.sent[n] < 0

\* A record whose squares add up to 2^32 was rejected.
LargestRecordRejected ==
    /\ u.op = "check_quaternion_validity" /\ u.ret = 0
    /\ dev.sent = <<-32768, -32768, -32768, -32768>>

\* ------------------------------------------------------------ reset_mpu9250

\* reset_mpu9250 statement by statement.  pc: "flag" (line 393), "w1" and
\* "w1r" (the write of H_RESET and its repetition, lines 399 and 402), "w2"
\* and "w2r" (the write of 0, lines 408 and 411), "d1" and "d2" (the waits of
\* lines 401 and 410), "settle" (line 416), "done".  out is what the call
\* did so far.
MaxResetFail == 4
ResetEvent(ev, val, ok) == [ev |-> ev, val |-> val, ok |-> ok]

\* A reset that gives up at the first failed write.
ResetNextNoRetry(pc, ok) ==
    IF ~ok THEN "done"
    ELSE IF pc \in {"w1", "w1r"} THEN "w2" ELSE "settle"

\* Where reset_mpu9250 goes after the write at pc.
ResetNext(pc, ok) ==
    CASE pc = "w1"  -> IF ok THEN "w2" ELSE "d1"
      [] pc = "w1r" -> IF ok THEN "w2" ELSE "done"
      [] pc = "w2"  -> IF ok THEN "settle" ELSE "d2"
      [] pc = "w2r" -> IF ok THEN "settle" ELSE "done"

\* The value written to PWR_MGMT_1 at pc.
ResetValue(pc) == IF pc \in {"w1", "w1r"} THEN "H_RESET" ELSE "0"

InitReset ==
    /\ \E flag \in {0, 1}, en \in {0, 1} :
         drv = [shutdown_interrupt_thread |-> flag, dmp_en |-> en]
    /\ dev = [int_enable |-> 0]
    /\ \E fails \in 0..MaxResetFail : i2c = [in_use |-> 1, fails |-> fails]
    /\ pstate = "RUNNING"
    /\ data = [mag |-> 0]
    /\ wk = [w \in Workers |-> NoWorker]
    /\ u = [op |-> "reset_mpu9250", pc |-> "flag", ret |-> 0, out |-> <<>>]
    /\ disk = [mag |-> 0]

reset_raise_flag ==
    /\ u.pc = "flag"
    /\ drv' = [drv EXCEPT !.shutdown_interrupt_thread = 1]
    /\ u' = [u EXCEPT !.pc = "w1",
                      !.out = Append(@, ResetEvent("flag", "1", TRUE))]
    /\ UNCHANGED <<dev, i2c, pstate, data, wk, disk>>

reset_write ==
    /\ u.pc \in {"w1", "w1r", "w2", "w2r"}
    /\ \E ok \in BOOLEAN :
         /\ ~ok => i2c.fails >= 1
         /\ i2c' = [i2c EXCEPT !.fails = IF ok THEN @ ELSE @ - 1]
         /\ dev' = IF ok THEN [dev EXCEPT !.int_enable = 0] ELSE dev
         /\ u' = [u EXCEPT
                    !.pc = ResetNext(u.pc, ok),
                    !.ret = IF ResetNext(u.pc, ok) = "done" THEN -1 ELSE @,
                    !.out = Append(@, ResetEvent("write", ResetValue(u.pc),
                                                 ok))]
    /\ UNCHANGED <<drv, pstate, data, wk, disk>>

reset_delay ==
    /\ u.pc \in {"d1", "d2"}
    /\ u' = [u EXCEPT !.pc = IF u.pc = "d1" THEN "w1r" ELSE "w2r",
                      !.out = Append(@, ResetEvent("usleep", "10000", TRUE))]
    /\ UNCHANGED <<drv, dev, i2c, pstate, data, wk, disk>>

reset_settle ==
    /\ u.pc = "settle"
    /\ u' = [u EXCEPT !.pc = "done", !.ret = 0,
                      !.out = Append(@, ResetEvent("usleep", "100000", TRUE))]
    /\ UNCHANGED <<drv, dev, i2c, pstate, data, wk, disk>>

NextReset ==
    \/ reset_raise_flag
    \/ reset_write
    \/ reset_delay
    \/ reset_settle

SpecReset == InitReset /\ [][NextReset]_vars

\* C27: reset_mpu9250 writes each of its two values at most twice, the
\* second time only after a failed first time and a wait; it returns -1
\* exactly when a value failed to be written twice; it waits for the device
\* to settle only when it returns 0; and the shutdown flag is up before the
\* first write, on every path.
WritesOf(val, ok) ==
    {n \in 1..Len(u.out) : u.out[n] = ResetEvent("write", val, ok)}
Attempts(val) == WritesOf(val, TRUE) \cup WritesOf(val, FALSE)
Settled == \E n \in 1..Len(u.out) : u.out[n].val = "100000"

ResetRetriesOnce ==
    /\ \A val \in {"H_RESET", "0"} :
         /\ Cardinality(Attempts(val)) <= 2
         /\ \A n \in Attempts(val) :
              n > 2 /\ u.out[n - 1].ev # "write" =>
                /\ u.out[n - 1] = ResetEvent("usleep", "10000", TRUE)
                /\ u.out[n - 2] = ResetEvent("write", val, FALSE)
         /\ Cardinality(WritesOf(val, TRUE)) <= 1
    /\ u.pc = "done" =>
         /\ u.ret \in {0, -1}
         /\ u.ret = -1 <=> \E val \in {"H_RESET", "0"} :
                             Cardinality(WritesOf(val, FALSE)) = 2
         /\ u.ret = 0 <=> Settled
    /\ Settled => u.pc = "done" /\ u.out[Len(u.out)].val = "100000"
    /\ \A n \in 1..Len(u.out) :
         u.out[n].ev = "write" =>
           u.out[1].ev = "flag" /\ drv.shutdown_interrupt_thread = 1

\* The reset went through with both writes repeated.
ResetWithBothRetries ==
    /\ u.pc = "done" /\ u.ret = 0 /\ Len(u.out) = 8

\* The reset failed at the second value.
ResetFailedAtSecondValue ==
    /\ u.pc = "done" /\ u.ret = -1
    /\ Cardinality(WritesOf("0", FALSE)) = 2

\* ------------------------------------------ the chunks of the firmware load

\* dmp_load_motion_driver_firmware statement by statement, for images of
\* several sizes.  DMP_LOAD_CHUNK and MPU6500_BANK_SIZE come from a header;
\* the comments of lines 893, 960 and 967 describe them: 16 bytes at a time,
\* an address that is bank << 8 | start address.
DMP_LOAD_CHUNK == 16
MPU6500_BANK_SIZE == 256
FirmwareSizes == {1, 16, 17, 250, 257, 3062}
MaxLoadFail == 1

\* A loader that writes a full chunk at the end of the image too.
ThisWriteFull(ii, code_size) == DMP_LOAD_CHUNK

\* this_write of line 970.
ThisWrite(ii, code_size) == Min(DMP_LOAD_CHUNK, code_size - ii)

\* The test of lines 909 and 940 on mem_addr and length.
ExceedsBank(mem_addr, length) ==
    (mem_addr % 2^8) + length > MPU6500_BANK_SIZE

MemEvent(ev, addr, len, ok) == [ev |-> ev, addr |-> addr, len |-> len, ok |-> ok]

InitLoad ==
    /\ drv = [dmp_en |-> 1]
    /\ \E size \in FirmwareSizes : dev = [code_size |-> size]
    /\ \E fails \in 0..MaxLoadFail : i2c = [in_use |-> 1, fails |-> fails]
    /\ pstate = "RUNNING"
    /\ data = [mag |-> 0]
    /\ wk = [w \in Workers |-> NoWorker]
    /\ u = [op |-> "dmp_load_motion_driver_firmware", pc |-> "loop",
            ret |-> 0, ii |-> 0, this_write |-> 0, out |-> <<>>]
    /\ disk = [mag |-> 0]

\* "ii < DMP_CODE_SIZE" and line 970.
load_loop_test ==
    /\ u.pc = "loop"
    /\ u' = IF u.ii < dev.code_size
            THEN [u EXCEPT !.pc = "write",
                           !.this_write = ThisWrite(u.ii, dev.code_size)]
            ELSE [u EXCEPT !.pc = "start"]
    /\ UNCHANGED <<drv, dev, i2c, pstate, data, wk, disk>>

\* mpu_write_mem (pc "write") and mpu_read_mem (pc "read") of the chunk.
load_transfer ==
    /\ u.pc \in {"write", "read"}
    /\ IF ExceedsBank(u.ii, u.this_write)
       THEN /\ u' = [u EXCEPT !.pc = "done", !.ret = -1,
                              !.out = Append(@, MemEvent("bank", u.ii,
                                                         u.this_write, FALSE))]
            /\ i2c' = i2c
       ELSE \E ok \in BOOLEAN :
            /\ ~ok => i2c.fails >= 1
            /\ i2c' = [i2c EXCEPT !.fails = IF ok THEN @ ELSE @ - 1]
            /\ u' = [u EXCEPT
                       !.pc = IF ~ok THEN "done"
                              ELSE IF u.pc = "write" THEN "read" ELSE "compare",
                       !.ret = IF ok THEN @ ELSE -1,
                       !.out = Append(@, MemEvent(u.pc, u.ii, u.this_write,
                                                  ok))]
    /\ UNCHANGED <<drv, dev, pstate, data, wk, disk>>

\* memcmp of line 978 and "ii += this_write" in an unsigned short.
load_compare ==
    /\ u.pc = "compare"
    /\ \E same \in BOOLEAN :
         u' = IF same
              THEN [u EXCEPT !.pc = "loop",
                             !.ii = (@ + u.this_write) % 2^16]
              ELSE [u EXCEPT !.pc = "done", !.ret = -2]
    /\ UNCHANGED <<drv, dev, i2c, pstate, data, wk, disk>>

\* The write of the program start address.
load_start_address ==
    /\ u.pc = "start"
    /\ \E ok \in BOOLEAN :
         /\ ~ok => i2c.fails >= 1
         /\ i2c' = [i2c EXCEPT !.fails = IF ok THEN @ ELSE @ - 1]
         /\ u' = [u EXCEPT !.pc = "done", !.ret = IF ok THEN 0 ELSE -1]
    /\ UNCHANGED <<drv, dev, pstate, data, wk, disk>>

NextLoad ==
    \/ load_loop_test
    \/ load_transfer
    \/ load_compare
    \/ load_start_address

\* The loader is one thread and every transfer returns.
SpecLoad == InitLoad /\ [][NextLoad]_vars /\ WF_vars(NextLoad)

\* C28: the firmware load writes and reads back the chunks in ascending
\* order, each written before it is read back, the first at address 0, each
\* where the one before ended and the last ending at the end of the image;
\* the low byte of the address plus the length of a chunk never exceeds the
\* bank size, so the bank check of mpu_write_mem and mpu_read_mem never
\* fires; and the load comes to an end.
ChunksInOrder ==
    /\ \A n \in 1..Len(u.out) :
         LET e == u.out[n] IN
         /\ e.ev # "bank"
         /\ e.len >= 1
         /\ (e.addr % 256) + e.len <= 256
         /\ e.ev = "write" =>
              IF n = 1 THEN e.addr = 0
              ELSE /\ u.out[n - 1].ev = "read" /\ u.out[n - 1].ok
                   /\ e.addr = u.out[n - 1].addr + u.out[n - 1].len
         /\ e.ev = "read" =>
              /\ n > 1
              /\ u.out[n - 1] = MemEvent("write", e.addr, e.len, TRUE)
    /\ (u.pc = "start" \/ (u.pc = "done" /\ u.ret = 0)) =>
         LET last == u.out[Len(u.out)] IN
         last.ev = "read" /\ last.ok /\ last.addr + last.len = dev.code_size

FirmwareLoadCoversImage == []ChunksInOrder /\ <>(u.pc = "done")

\* An image of 3062 bytes was loaded: 191 chunks of 16 bytes and one of 6.
WholeImageLoaded ==
    /\ u.pc = "done" /\ u.ret = 0 /\ dev.code_size = 3062
    /\ Len(u.out) = 2 * 192 /\ u.out[Len(u.out)].len = 6

\* ------------------------------------------------------ the packet length

\* initialize_imu_dmp has returned success.
DmpInitialized ==
    u.op = "initialize_imu_dmp" /\ u.ph = "returned" /\ u.ret = 0

\* initialize_imu_dmp stands between the two statements of
\* dmp_enable_feature that set packet_len.
PacketLenCleared ==
    /\ u.op = "initialize_imu_dmp" /\ u.ph = "run"
    /\ initialize_imu_dmp_prog[u.pc - 1].op = "clear_packet_len"

\* A read_dmp_fifo call made while packet_len is neither 28 nor 35 is
\* refused: it returns -1, uses the bus for nothing and changes nothing.
BadLengthRefused ==
    \A w \in Workers :
      (wk[w].pc = "drain" /\ wk'[w].pc = "release"
         /\ drv.packet_len \notin {FIFO_LEN_NO_MAG, FIFO_LEN_MAG})
      => /\ wk'[w].g.kind = "refused" /\ wk'[w].ret = -1
         /\ wk'[w].g.rd = <<>> /\ ~wk'[w].g.reset
         /\ i2c' = i2c /\ dev' = dev /\ data' = data

\* C29: dmp_enable_feature sets packet_len to 6 for the raw accelerometer
\* plus 6 for a gyro stream plus 16 for a quaternion mode, which is 28 for
\* the features initialize_imu_dmp enables; whenever initialize_imu_dmp has
\* returned success, the first time or after earlier initialisations,
\* packet_len is 28 with the magnetometer disabled and 35 with it enabled;
\* and a read_dmp_fifo call that finds packet_len neither 28 nor 35 returns
\* failure without a bus access.
PacketLengthSetAndChecked ==
    /\ [](DmpInitialized =>
            drv.packet_len = IF drv.config.enable_magnetometer = 1
                             THEN FIFO_LEN_MAG ELSE FIFO_LEN_NO_MAG)
    /\ [](PacketLenCleared => drv.packet_len = 0)
    /\ [][BadLengthRefused]_vars

\* A later initialisation, with the magnetometer, has succeeded after an
\* earlier one, whose sampler thread had its read_dmp_fifo call refused
\* while packet_len was being set again.
RefusedWhileSetAgain ==
    /\ DmpInitialized /\ drv.packet_len = FIFO_LEN_MAG
    /\ \E w \in Workers :
         wk[w].pc = "release" /\ wk[w].g.kind = "refused" /\ wk[w].ret = -1

\* ---------------------------------------------------------- the block read

\* C30: a block read of the FIFO whose first transfer fails - with an error,
\* or with fewer bytes than the FIFO count - is made a second time and never
\* a third; when the transfer whose result is kept has not delivered the
\* FIFO count, the drain returns failure, does not reset the FIFO and changes
\* no field of the sample record.
FailedBlockReadRetriedOnce ==
    \A w \in Workers :
      LET g == wk[w].g IN
      (Drained(w) /\ g.rd # <<>>) =>
        /\ Len(g.rd) <= 2
        /\ (Len(g.rd) = 2) <=> (g.rd[1] # "ok")
        /\ ~BlockReadOk(g.rd) =>
             (wk[w].ret = -1 /\ ~g.reset /\ g.changed = {})

\* --------------------------------------------------------- the data fusion

\* C31: a drain runs data_fusion exactly when it decoded new coprocessor
\* data from a packet that carried a magnetometer sample; never in a drain
\* that failed, that found a magnetometer sample alone, or whose packet had
\* no magnetometer sample.
FusionOnlyWithMagData ==
    \A w \in Workers :
      LET g == wk[w].g IN
      Drained(w) =>
        /\ g.fused <=> (g.new_dmp /\ g.mag = 1)
        /\ g.fused => wk[w].ret = 0

\* ------------------------------------------------- data_fusion in detail

\* Angles are multiples of PI / GridPI; NaN is a value of its own that
\* compares false with everything, and the spin counters are kept within
\* MaxSpin turns.
GridPI == 4
MaxSpin == 1
PI == GridPI
TWO_PI == 2 * GridPI
NaN == -(TWO_PI * TWO_PI)
Angles == (-PI)..PI

\* Float subtraction and comparison.
FSub(a, b) == IF a = NaN \/ b = NaN THEN NaN ELSE a - b
FLess(a, b) == a # NaN /\ b # NaN /\ a < b

\* A counter that counts a crossing in the other direction.
SpinReversed(new, last, counter) ==
    IF FLess(FSub(new, last), -PI) THEN counter - 1
    ELSE IF FLess(PI, FSub(new, last)) THEN counter + 1
    ELSE counter

\* "check for a skip and increment or decrement the spin counter".
Spin(new, last, counter) ==
    IF FLess(FSub(new, last), -PI) THEN counter + 1
    ELSE IF FLess(PI, FSub(new, last)) THEN counter - 1
    ELSE counter

\* fmodf(x, TWO_PI): the remainder has the sign of x.
Fmod(x) == IF x >= 0 THEN x % TWO_PI ELSE -((-x) % TWO_PI)

\* "remove the effect of the spins" and "bound between +- PI".
BoundYaw(x) ==
    IF Fmod(x) > PI THEN Fmod(x) - TWO_PI
    ELSE IF Fmod(x) < -PI THEN Fmod(x) + TWO_PI
    ELSE Fmod(x)

\* The statics of data_fusion and the two filters before the first call; a
\* filter is known by the input it was last given.
FusionStatics ==
    [newMagYaw |-> 0, newDMPYaw |-> 0, dmp_spin_counter |-> 0,
     mag_spin_counter |-> 0, first_run |-> 1, low_pass |-> 0, high_pass |-> 0]

\* The fields of the sample record data_fusion writes.
NoFusion ==
    [compass_heading_raw |-> 0, compass_heading |-> 0,
     fused_TaitBryan |-> <<0, 0, 0>>, fused_quat |-> <<0, 0, 0>>]

\* What the last call did: how it ended, whether it was the first one to
\* pass the NaN test, and whether it found the magnetic heading more than
\* PI below the remembered one.
NoCycle == [kind |-> "none", first |-> FALSE, crossed |-> FALSE]

\* The yaw angles of the coprocessor, and the pitch and roll of the
\* coprocessor with the sum of the two filter outputs, that the calls are
\* run with.
DmpYaws == {-PI, -1, 1, PI}
FusionInputs ==
    {[tilt |-> <<0, 0>>, sum |-> 0],
     [tilt |-> <<1, 2>>, sum |-> -(PI + 1)],
     [tilt |-> <<1, 2>>, sum |-> TWO_PI + PI + 1]}

InitFusion ==
    /\ drv = FusionStatics
    /\ data = NoFusion
    /\ u = NoCycle
    /\ dev = [int_enable |-> 1]
    /\ i2c = [in_use |-> 0, fails |-> 0]
    /\ pstate = "RUNNING"
    /\ wk = [w \in Workers |-> NoWorker]
    /\ disk = NoFiles

\* One call of data_fusion: the heading atan2f gives for the tilted field is
\* heading, the coprocessor's angles are tilt and yaw, the filters return
\* outputs that add up to sum.
data_fusion_call(orientation_ok, heading, yaw, tilt, sum) ==
    LET cyc == [NoCycle EXCEPT
                  !.first = drv.first_run = 1,
                  !.crossed = FLess(FSub(heading, drv.newMagYaw), -PI)]
        m1 == Spin(heading, drv.newMagYaw, drv.mag_spin_counter)
        d1 == Spin(yaw, drv.newDMPYaw, drv.dmp_spin_counter)
        m2 == IF drv.first_run = 1 THEN 0 ELSE m1
        d2 == IF drv.first_run = 1 THEN 0 ELSE d1
        newYaw == BoundYaw(sum)
    IN
    IF ~orientation_ok
    THEN /\ u' = [cyc EXCEPT !.kind = "orientation"]
         /\ UNCHANGED <<drv, data>>
    ELSE IF heading = NaN
    THEN /\ drv' = [drv EXCEPT !.newMagYaw = heading]
         /\ u' = [cyc EXCEPT !.kind = "nan"]
         /\ UNCHANGED data
    ELSE /\ m2 \in (-MaxSpin)..MaxSpin /\ d2 \in (-MaxSpin)..MaxSpin
         /\ drv' = [newMagYaw |-> heading, newDMPYaw |-> yaw,
                    mag_spin_counter |-> m2, dmp_spin_counter |-> d2,
                    first_run |-> 0,
                    low_pass |-> heading + TWO_PI * m2,
                    high_pass |-> yaw + TWO_PI * d2]
         /\ data' = [compass_heading_raw |-> heading,
                     compass_heading |-> newYaw,
                     fused_TaitBryan |-> <<tilt[1], tilt[2], newYaw>>,
                     fused_quat |-> <<tilt[1], tilt[2], newYaw>>]
         /\ u' = [cyc EXCEPT !.kind = "fused"]

FusionCycle ==
    /\ \/ data_fusion_call(FALSE, 0, 0, <<0, 0>>, 0)
       \/ \E yaw \in DmpYaws, inp \in FusionInputs :
            data_fusion_call(TRUE, NaN, yaw, inp.tilt, inp.sum)
       \/ \E heading \in Angles, yaw \in DmpYaws, inp \in FusionInputs :
            data_fusion_call(TRUE, heading, yaw, inp.tilt, inp.sum)
    /\ UNCHANGED <<dev, i2c, pstate, wk, disk>>

NextFusion == FusionCycle

SpecFusion == InitFusion /\ [][NextFusion]_vars

\* C32: a call of data_fusion that finds a NaN heading returns with all of
\* the fused state as it was: the fields of the sample record it writes, the
\* spin counters, the filters, the remembered headings and the first-run
\* flag.
NanCycleChangesNothing ==
    [][u'.kind = "nan" => (drv' = drv /\ data' = data)]_vars

\* What a NaN call does leave alone: everything but the remembered magnetic
\* heading.
NanCycleKeepsOutputs ==
    [][u'.kind = "nan" =>
         (data' = data /\ drv' = [drv EXCEPT !.newMagYaw = drv'.newMagYaw])]_vars

\* The angle new is a steady step, less than half a turn, ahead of last.
StepsAhead(new, last) ==
    last # NaN /\ new # NaN /\ (new - last) % TWO_PI \in 1..(PI - 1)

\* The counter after a call that passed the NaN test and was not the first:
\* one more below -PI, one less above +PI, else the same.
Counted(new, last, after, before) ==
    IF last = NaN THEN after = before
    ELSE IF new - last < -PI THEN after = before + 1
    ELSE IF new - last > PI THEN after = before - 1
    ELSE after = before

FusedStep == u'.kind = "fused" /\ ~u'.first

SpinStep ==
    /\ (u'.kind = "fused" /\ u'.first) =>
         (drv'.mag_spin_counter = 0 /\ drv'.dmp_spin_counter = 0)
    /\ FusedStep =>
         /\ Counted(drv'.newMagYaw, drv.newMagYaw,
                    drv'.mag_spin_counter, drv.mag_spin_counter)
         /\ Counted(drv'.newDMPYaw, drv.newDMPYaw,
                    drv'.dmp_spin_counter, drv.dmp_spin_counter)
    /\ (FusedStep /\ StepsAhead(drv'.newMagYaw, drv.newMagYaw)) =>
         drv'.newMagYaw + TWO_PI * drv'.mag_spin_counter
           > drv.newMagYaw + TWO_PI * drv.mag_spin_counter
    /\ (FusedStep /\ StepsAhead(drv'.newDMPYaw, drv.newDMPYaw)) =>
         drv'.newDMPYaw + TWO_PI * drv'.dmp_spin_counter
           > drv.newDMPYaw + TWO_PI * drv.dmp_spin_counter

\* C33: for the magnetic heading and for the coprocessor yaw, data_fusion
\* adds one to the spin counter when the new angle minus the remembered one
\* is below -PI, takes one off when it is above +PI and leaves it otherwise;
\* both counters are zero until and after the first call that fuses; and
\* when an angle goes up by a steady step, across +PI to -PI too, the angle
\* plus TWO_PI times its counter goes up.
YawUnwrapped ==
    /\ [](drv.first_run = 1 =>
            (drv.mag_spin_counter = 0 /\ drv.dmp_spin_counter = 0))
    /\ [][SpinStep]_vars

\* A call has found the magnetic heading gone across +PI to the negative
\* side, and has one turn counted for it; the coprocessor yaw has a turn
\* counted too.
CrossingCounted ==
    /\ u.kind = "fused" /\ ~u.first /\ u.crossed
    /\ drv.newMagYaw < 0
    /\ drv.mag_spin_counter = 1 /\ drv.dmp_spin_counter = 1

\* ------------------------------------------------- removing the callback

\* C37: while the registration is removed - stop_imu_interrupt_func has
\* returned and set_imu_interrupt_func has not been called since - no
\* sampler thread begins a call of the user function, wherever the thread
\* was when the registration was removed.
NoCallAfterRemoval ==
    [][\A w \in Workers :
         (wk[w].pc = "call" /\ wk'[w].pc # "call")
         => drv.interrupt_func_set = 1]_vars

\* ---------------------------------------- one edge event, step by step

\* The edges the clock of this specification counts.
MaxEvents == 3

\* A handler that records the result before it releases the bus.
EventNextRecordFirst(pc) ==
    CASE pc = "clear" -> "stamp"
      [] pc = "stamp" -> "claim"
      [] pc = "claim" -> "drain"
      [] pc = "drain" -> "record"
      [] pc = "record" -> "release"
      [] pc = "release" -> "cbtest"

\* The statements of imu_interrupt_handler from the POLLPRI test to the test
\* for the user function, each with the one that follows it: lseek and
\* read, the timestamp, i2c_claim_bus, read_dmp_fifo, i2c_release_bus, the
\* store into last_read_successful.
EventNext(pc) ==
    CASE pc = "clear" -> "stamp"
      [] pc = "stamp" -> "claim"
      [] pc = "claim" -> "drain"
      [] pc = "drain" -> "release"
      [] pc = "release" -> "record"
      [] pc = "record" -> "cbtest"

InitEvent ==
    /\ \E set \in {0, 1} :
         drv = [shutdown_interrupt_thread |-> 0, interrupt_func_set |-> set,
                imu_interrupt_func |-> IF set = 1 THEN "user_func" ELSE "NULL",
                last_read_successful |-> 0,
                last_interrupt_timestamp_micros |-> 0]
    /\ dev = [int_enable |-> 1]
    /\ i2c = [in_use |-> 0, fails |-> 0]
    /\ pstate = "RUNNING"
    /\ data = [mag |-> 0]
    /\ wk = [w \in Workers |->
               IF w = 1 THEN [NoWorker EXCEPT !.pc = "loop", !.fd = TRUE,
                                              !.first_run = 1]
               ELSE NoWorker]
    /\ u = [ph |-> "idle", out |-> <<>>, micros_since_epoch |-> 0]
    /\ disk = NoFiles

\* The while condition.
event_loop ==
    /\ wk[1].pc = "loop"
    /\ wk' = [wk EXCEPT ![1].pc = IF StopRequested THEN "done" ELSE "poll"]
    /\ UNCHANGED <<drv, dev, i2c, pstate, data, u, disk>>

\* poll and the two tests after it; the clock has gone on when an edge
\* comes.
event_poll ==
    /\ wk[1].pc = "poll"
    /\ \E edge \in BOOLEAN :
         IF StopRequested
         THEN wk' = [wk EXCEPT ![1].pc = "done"] /\ u' = u
         ELSE IF edge
         THEN /\ u.micros_since_epoch < MaxEvents
              /\ wk' = [wk EXCEPT ![1].pc = "clear"]
              /\ u' = [u EXCEPT !.out = <<>>, !.micros_since_epoch = @ + 1]
         ELSE wk' = [wk EXCEPT ![1].pc = "loop"] /\ u' = u
    /\ UNCHANGED <<drv, dev, i2c, pstate, data, disk>>

\* One statement of the straight part; read_dmp_fifo returns 0 or -1.
event_step ==
    /\ wk[1].pc \in {"clear", "stamp", "claim", "drain", "release", "record"}
    /\ \E ret \in {0, -1} :
         /\ wk' = [wk EXCEPT ![1].pc = EventNext(wk[1].pc),
                             ![1].ret = IF wk[1].pc = "drain" THEN ret ELSE @]
         /\ drv' = CASE wk[1].pc = "stamp" ->
                          [drv EXCEPT !.last_interrupt_timestamp_micros =
                                        u.micros_since_epoch]
                     [] wk[1].pc = "record" ->
                          [drv EXCEPT !.last_read_successful =
                                        IF wk[1].ret = 0 THEN 1 ELSE 0]
                     [] OTHER -> drv
         /\ i2c' = CASE wk[1].pc = "claim" -> [i2c EXCEPT !.in_use = 1]
                     [] wk[1].pc = "release" -> [i2c EXCEPT !.in_use = 0]
                     [] OTHER -> i2c
    /\ u' = [u EXCEPT !.out = Append(@, wk[1].pc)]
    /\ UNCHANGED <<dev, pstate, data, disk>>

\* "call the user function if not the first run".
event_cbtest ==
    /\ wk[1].pc = "cbtest"
    /\ wk' = [wk EXCEPT ![1] =
                IF CallsUser(wk[1].first_run, drv.interrupt_func_set,
                             drv.last_read_successful)
                THEN [@ EXCEPT !.pc = "call"]
                ELSE [@ EXCEPT !.pc = "loop", !.first_run = 0]]
    /\ u' = [u EXCEPT !.out = Append(@, "cbtest")]
    /\ UNCHANGED <<drv, dev, i2c, pstate, data, disk>>

\* imu_interrupt_func() runs and returns.
event_call ==
    /\ wk[1].pc = "call"
    /\ wk' = [wk EXCEPT ![1].pc = "loop"]
    /\ u' = [u EXCEPT !.out = Append(@, "call")]
    /\ UNCHANGED <<drv, dev, i2c, pstate, data, disk>>

NextEvent ==
    \/ event_loop
    \/ event_poll
    \/ event_step
    \/ event_cbtest
    \/ event_call
    \/ \E f \in UserFuncs : set_imu_interrupt_func(f)
    \/ stop_imu_interrupt_func
    \/ SetStateExiting

SpecEvent == InitEvent /\ [][NextEvent]_vars

\* The steps of one event in the order of the claim.
EventOrder ==
    <<"clear", "stamp", "claim", "drain", "release", "record", "cbtest",
      "call">>

\* The step has been taken for the last edge.
Done(step) == \E n \in 1..Len(u.out) : u.out[n] = step

\* C34: for every edge the sampler clears the edge source, records the
\* timestamp, claims the bus, runs the parser, releases the bus, sets
\* last_read_successful from the parser's result, and then looks at the
\* callback, in this order: the parser has the claim before it and the
\* release after it, the release is done when the callback starts, and the
\* timestamp is the time of the last edge whatever the parser returns.
EventStepsInOrder ==
    /\ Len(u.out) <= Len(EventOrder)
    /\ \A n \in 1..Len(u.out) : u.out[n] = EventOrder[n]
    /\ wk[1].pc = "call" => Done("release")
    /\ Done("stamp") =>
         drv.last_interrupt_timestamp_micros = u.micros_since_epoch
    /\ Done("record") =>
         (drv.last_read_successful = 1 <=> wk[1].ret = 0)

\* The second edge has been handled to the end with a parser that failed:
\* the timestamp is that of this edge.
FailedEventStamped ==
    /\ u.micros_since_epoch = 2 /\ Done("cbtest")
    /\ wk[1].ret = -1 /\ drv.last_read_successful = 0
    /\ drv.last_interrupt_timestamp_micros = 2

\* ------------------------------------------------ the bytes a drain reads

\* The indices of raw[] that check_quaternion_validity reads at offset i.
ProbeIndices(i) == i..(i + 15)

\* The indices a drain reads once it has the quaternion at offset j: the
\* quaternion (16 bytes), the accelerometer and the gyro (6 bytes each).
PacketIndices(j) == j..(j + 16 + 6 + 5)

\* The indices of the magnetometer sample at offset i.
MagIndices(i) == i..(i + 5)

\* All the indices of raw[] the recorded drain g has read.
IndicesRead(g, enable_magnetometer) ==
    (IF g.dmp = 1 /\ enable_magnetometer = 1
     THEN ProbeIndices(g.i + 7) ELSE {})
    \cup (IF g.dmp = 1 /\ ~(enable_magnetometer = 1 /\ g.vq[1])
          THEN ProbeIndices(g.i) ELSE {})
    \cup (IF g.new_dmp THEN PacketIndices(g.j) ELSE {})
    \cup (IF g.mag = 1 /\ (g.dmp = 1 => g.new_dmp)
          THEN MagIndices(g.mi) ELSE {})

\* C35: every index of the buffer a drain reads - for the validity checks,
\* the quaternion, the accelerometer, the gyro and the magnetometer - is
\* below the number of bytes the drain has read from the FIFO, for every
\* recognised byte count and with the magnetometer disabled or enabled.
ReadsWithinCount ==
    \A w \in Workers :
      LET g == wk[w].g IN
      (Drained(w) /\ ReadIn(g)) =>
        \A n \in IndicesRead(g, drv.config.enable_magnetometer) : n < g.cnt

\* ------------------------------------------- the wrapping of the magnitude

\* The exact sum of the four squares is 2^31 or more: the sum of the code
\* has wrapped.
SumWraps(q) == SquaresUpper(q) >= 2^15

\* C36: with the sum of the squares computed in a signed long of 32 bits
\* that wraps, check_quaternion_validity returns 1 for no record whose exact
\* sum of squares is outside 2^28 - 2^16 .. 2^28 + 2^16; a record whose sum
\* wraps is rejected.
WrapNeverAccepts ==
    (u.op = "check_quaternion_validity" /\ u.ret = 1)
    => (SquaresInBand(dev.sent) /\ ~SumWraps(dev.sent))

\* A record whose sum wraps - three fields at -32768 and one at 32767 - has
\* been rejected.
WrappedSumRejected ==
    /\ u.op = "check_quaternion_validity" /\ u.ret = 0
    /\ SumWraps(dev.sent) /\ dev.sent[1] = 32767

\* ------------------------------------- the bus after a calibration routine

CalibrationReturned ==
    /\ u.ph = "returned"
    /\ u.op \in {"calibrate_gyro_routine", "calibrate_mag_routine"}

\* C38: when calibrate_gyro_routine or calibrate_mag_routine returns after
\* it has claimed the bus, on whichever path, it has released the bus; and
\* when it finds the bus claimed at entry it returns -1 and has made no bus
\* transaction.
CalibrationLeavesBusReleased ==
    /\ (CalibrationReturned /\ u.claimed) =>
         /\ ~u.holds
         /\ (\A w \in Workers : wk[w].pc \notin {"drain", "release"})
              => i2c.in_use = 0
    /\ (CalibrationReturned /\ u.obs.at = "in_use_check") =>
         (u.ret = -1 /\ ~u.claimed /\ u.obs.touch = "none")

\* --------------------------------------------- the division by the samples

\* C39: calibrate_gyro_routine divides the gyro sums by the number of
\* samples only when the FIFO count read after the collection window gave
\* at least one sample: no call traps in the division, and no round is
\* accepted with offsets that are quotients by zero.
DivisionOnlyWithSamples ==
    /\ u.ph # "crashed"
    /\ (u.op = "calibrate_gyro_routine" /\ u.obs.round.st = "accepted")
         => u.obs.round.n > 0

\* ------------------------------------------------------ the DMP-mode flag

\* C40: dmp_en is set only when the last initialisation that succeeded was
\* initialize_imu_dmp: it is clear as long as no initialize_imu_dmp has
\* succeeded (no sampler thread was ever created), whatever has failed, and
\* it is clear when initialize_imu has returned success.
DmpFlagFollowsLastInit ==
    /\ drv.imu_interrupt_thread = 0 => drv.dmp_en = 0
    /\ (u.ph = "returned" /\ u.op = "initialize_imu" /\ u.ret = 0)
         => drv.dmp_en = 0

=============================================================================
